---------------------------- MODULE Spec2Model ----------------------------
(***************************************************************************)
(* Model of the workout video analysis pipeline of                         *)
(* backend/app/services/video_processor.py (WorkoutVideoProcessor):        *)
(* frame classification, rep segmentation and the process_video loop.      *)
(*                                                                         *)
(* Angles are floats in the source; here an angle is a whole number of     *)
(* degrees or the IEEE not-a-number the geometry functions return for      *)
(* coinciding landmarks, drawn from HipAngles and SpineAngles: one value   *)
(* per region the code's comparisons distinguish, and nan.  Quotients the  *)
(* source computes in floating point (timestamp, duration, phase timings,  *)
(* averages) are kept as exact fractions [num, den] and compared with      *)
(* RatEq.                                                                  *)
(*                                                                         *)
(* The geometry functions are modelled on their own, on keypoints of a     *)
(* grid; the upload route and its background task of routers/workouts.py   *)
(* are modelled in the section "uploads".                                  *)
(*                                                                         *)
(* The progress log of lines 157-160 acts when frame_number is a multiple   *)
(* of 30; videos that long are the section "long videos".                  *)
(*                                                                         *)
(* The pose estimator self.pose is a library object: the model keeps where  *)
(* the frames behind its tracking state come from (pose_tracked) and lets  *)
(* an estimator that tracked an earlier video report any pose.             *)
(*                                                                         *)
(* Not modelled: knee_angle in the FrameAnalysis of process_video (stored,  *)
(* never read again) and the summary statistics.                           *)
(***************************************************************************)
EXTENDS Integers, Sequences, FiniteSets, TLC

\* ------------------------------------------------------------------ bounds
MaxFrames == 3                    \* longest video read from the decoder
MaxRerunFrames == 2               \* longest video read by a processor that
                                  \* is used for one video after another
MaxPairFrames == 2                \* longest video of each of two processors
                                  \* running side by side
MaxBoundaryFrames == 3            \* longest video of threshold angles
MaxUploads == 2                   \* uploads the server receives

\* ------------------------------------------------------------------ inputs
\* A float holding an angle: a number of degrees, or the IEEE not-a-number
\* that _calculate_hip_angle and _calculate_spine_angle return when two of
\* the landmarks they divide by coincide.
Degrees(v) == [nan |-> FALSE, deg |-> v]
NaN == [nan |-> TRUE, deg |-> 0]

HipAngles ==
    {Degrees(65), Degrees(95), Degrees(120), Degrees(155), Degrees(170), NaN}
SpineAngles == {Degrees(0), Degrees(20), NaN}
FpsValues == {0, 24, 30}          \* cap.get(CAP_PROP_FPS); 0 when unknown
FrameCounts == {0, 30}            \* cap.get(CAP_PROP_FRAME_COUNT); 0 when
                                  \* the container does not tell
ExerciseTypes == {"squat", "deadlift"}
VideoFiles == {"missing", "unreadable", "ok"}   \* what video_path holds
Phases == {"descent", "bottom", "ascent", "top"}

VARIABLES
    pc,                     \* position in process_video
    video_file,             \* the file at video_path
    cap,                    \* the cv2.VideoCapture of process_video
    fps,                    \* local fps of process_video
    total_frames,           \* local total_frames of process_video
    exercise_type,          \* argument exercise_type
    frame_number,           \* local frame_number
    frame_analyses,         \* local frame_analyses
    decoded,                \* history: per frame, what the pose estimator
                            \* of a newly constructed processor reports
    pose_landmarks,         \* results.pose_landmarks of the latest frame
    pose_tracked,           \* self.pose: the frames its tracking state
                            \* comes from
    current_rep,            \* self.current_rep
    is_in_bottom_position,  \* self.is_in_bottom_position
    rep_start_frame,        \* self.rep_start_frame
    last_hip_angle,         \* self.last_hip_angle
    rep_analyses,           \* self.rep_analyses
    current_rep_frames,     \* self.current_rep_frames
    raised,                 \* exception that left process_video, or "none"
    result,                 \* returned VideoAnalysisResult, or "none"
    entries,                \* history: idle -> in_bottom transitions
    completions,            \* history: reps emitted while processing frames
    other,                  \* a run of process_video on a second processor
    call,                   \* a helper called on its own, with its result
    files,                  \* the uploads directory: what each path holds
    sessions,               \* the status column of the workout_sessions table
    tasks,                  \* the background tasks of the uploads
    responses               \* what each upload request was answered with

vars == <<pc, video_file, cap, fps, total_frames, exercise_type,
          frame_number, frame_analyses,
          pose_landmarks, pose_tracked, current_rep, is_in_bottom_position,
          rep_start_frame, last_hip_angle, rep_analyses,
          current_rep_frames, raised, result, entries, completions,
          decoded, other, call, files, sessions, tasks, responses>>

\* The state the upload route and its background tasks work on.
server == <<files, sessions, tasks, responses>>

\* Variables the run on the first processor never touches.
aside == <<other, call, files, sessions, tasks, responses>>

\* ------------------------------------------------------------ arithmetic
Rat(n, d) == [num |-> n, den |-> d]
RatEq(a, b) == a.num * b.den = b.num * a.den
RatLess(a, b) == a.num * b.den < b.num * a.den

Max(a, b) == IF a > b THEN a ELSE b
Min(a, b) == IF a < b THEN a ELSE b
Abs(a) == IF a < 0 THEN -a ELSE a
Last(s) == s[Len(s)]

RECURSIVE SumForm(_)
SumForm(frames) ==
    IF frames = <<>> THEN 0
    ELSE frames[1].form_score + SumForm(Tail(frames))

\* a < b and a <= b on floats: every comparison with nan is false.
FloatLess(a, b) == ~a.nan /\ ~b.nan /\ a.deg < b.deg
FloatLessEq(a, b) == ~a.nan /\ ~b.nan /\ a.deg <= b.deg

\* Python's min and max over a list of floats: the first item, replaced by
\* each later item that compares below (above) the best so far; nan never
\* does, and is never replaced.
RECURSIVE MinOfFloats(_)
MinOfFloats(s) ==
    IF Len(s) = 1 THEN s[1]
    ELSE LET best == MinOfFloats(SubSeq(s, 1, Len(s) - 1))
         IN  IF FloatLess(s[Len(s)], best) THEN s[Len(s)] ELSE best

RECURSIVE MaxOfFloats(_)
MaxOfFloats(s) ==
    IF Len(s) = 1 THEN s[1]
    ELSE LET best == MaxOfFloats(SubSeq(s, 1, Len(s) - 1))
         IN  IF FloatLess(best, s[Len(s)]) THEN s[Len(s)] ELSE best

\* _finalize_current_rep, line 423: min(f.hip_angle for f in the buffer).
MinHip(frames) ==
    MinOfFloats([i \in 1..Len(frames) |-> frames[i].hip_angle])

\* _finalize_current_rep, lines 427-428: max(spine_angles) of the buffer.
MaxSpine(frames) ==
    MaxOfFloats([i \in 1..Len(frames) |-> frames[i].spine_angle])

\* ------------------------------------------------------- frame classifier
\* _determine_rep_phase with the cut-offs themselves counted as top and
\* bottom.
DetermineRepPhase_InclusiveCutoffs(hip_angle, ex, last) ==
    IF ex = "squat"
    THEN IF FloatLessEq(Degrees(150), hip_angle) THEN "top"
         ELSE IF FloatLessEq(hip_angle, Degrees(90)) THEN "bottom"
         ELSE IF FloatLess(hip_angle, last) THEN "descent"
         ELSE "ascent"
    ELSE IF FloatLessEq(Degrees(160), hip_angle) THEN "top"
         ELSE IF FloatLessEq(hip_angle, Degrees(100)) THEN "bottom"
         ELSE IF FloatLess(hip_angle, last) THEN "descent"
         ELSE "ascent"

\* _determine_rep_phase, lines 351-370: the value returned.  Every
\* comparison with nan is false, so a nan hip angle takes the last else.
DetermineRepPhase(hip_angle, ex, last) ==
    IF ex = "squat"
    THEN IF FloatLess(Degrees(150), hip_angle) THEN "top"
         ELSE IF FloatLess(hip_angle, Degrees(90)) THEN "bottom"
         ELSE IF FloatLess(hip_angle, last) THEN "descent"
         ELSE "ascent"
    ELSE IF FloatLess(Degrees(160), hip_angle) THEN "top"
         ELSE IF FloatLess(hip_angle, Degrees(100)) THEN "bottom"
         ELSE IF FloatLess(hip_angle, last) THEN "descent"
         ELSE "ascent"

\* _determine_rep_phase, line 372: self.last_hip_angle after the call.  The
\* assignment follows an if/else whose every branch returns, so it never
\* runs and the field keeps its value.
LastHipAngleAfterPhase(hip_angle, last) == last

\* _calculate_form_score without the upper clamp of line 391.
CalculateFormScore_NoUpperClamp(hip_angle, spine_angle, ex) ==
    LET spine_penalty == IF spine_angle.nan THEN 0
                         ELSE Max(0, Abs(spine_angle.deg) - 5) * 2
        bonus2 == IF ex = "squat" /\ FloatLess(hip_angle, Degrees(90))
                  THEN Min(Max(0, 90 - hip_angle.deg), 20)
                  ELSE 0
        score2 == 200 - 2 * Min(spine_penalty, 40) + bonus2
    IN  Max(0, score2 \div 2)

\* _calculate_form_score with the depth bonus given to every exercise type.
CalculateFormScore_BonusForAll(hip_angle, spine_angle, ex) ==
    LET spine_penalty == IF spine_angle.nan THEN 0
                         ELSE Max(0, Abs(spine_angle.deg) - 5) * 2
        bonus2 == IF FloatLess(hip_angle, Degrees(90))
                  THEN Min(Max(0, 90 - hip_angle.deg), 20)
                  ELSE 0
        score2 == 200 - 2 * Min(spine_penalty, 40) + bonus2
    IN  Max(0, Min(100, score2 \div 2))

\* _calculate_form_score, lines 374-391.  depth_bonus = (90 - hip) / 20 * 10
\* is a multiple of one half, so the score is computed in half points and
\* int() is the division by 2 (the score is never negative before clamping).
\* max(0, nan) is 0 (nan > 0 is false), so a nan spine angle costs nothing;
\* nan < 90 is false, so a nan hip angle earns no bonus.
CalculateFormScore(hip_angle, spine_angle, ex) ==
    LET spine_penalty == IF spine_angle.nan THEN 0
                         ELSE Max(0, Abs(spine_angle.deg) - 5) * 2
        bonus2 == IF ex = "squat" /\ FloatLess(hip_angle, Degrees(90))
                  THEN Min(Max(0, 90 - hip_angle.deg), 20)
                  ELSE 0
        score2 == 200 - 2 * Min(spine_penalty, 40) + bonus2
    IN  Max(0, Min(100, score2 \div 2))

\* The timestamp computed with floor division (//) instead of /.
Timestamp_FloorDivision(n, f) ==
    IF f > 0 THEN Rat(n \div f, 1) ELSE Rat(0, 1)

\* process_video, line 147: timestamp = frame_number / fps if fps > 0 else 0
Timestamp(n, f) == IF f > 0 THEN Rat(n, f) ELSE Rat(0, 1)

\* _process_frame, lines 210-232: the FrameAnalysis of a frame with a pose.
MakeFrameAnalysis(n, f, hip_angle, spine_angle, ex, last) ==
    LET form_score == CalculateFormScore(hip_angle, spine_angle, ex)
    IN  [frame_number |-> n,
         timestamp    |-> Timestamp(n, f),
         hip_angle    |-> hip_angle,
         spine_angle  |-> spine_angle,
         form_score   |-> form_score,
         is_good_form |-> form_score >= 70,
         rep_phase    |-> DetermineRepPhase(hip_angle, ex, last)]

\* ------------------------------------------------------- rep segmentation
\* The fields of the processor object that rep segmentation reads and writes.
Self ==
    [current_rep           |-> current_rep,
     is_in_bottom_position |-> is_in_bottom_position,
     rep_start_frame       |-> rep_start_frame,
     rep_analyses          |-> rep_analyses,
     current_rep_frames    |-> current_rep_frames]

\* reset_rep_counter, lines 91-98 (last_hip_angle is set by the callers).
ResetSelf ==
    [current_rep           |-> 0,
     is_in_bottom_position |-> FALSE,
     rep_start_frame       |-> 0,
     rep_analyses          |-> <<>>,
     current_rep_frames    |-> <<>>]

\* reset_rep_counter leaving the frames buffered by the last run in place.
ResetRepCounter_KeepsBuffer(s) ==
    [s EXCEPT !.current_rep           = 0,
              !.is_in_bottom_position = FALSE,
              !.rep_start_frame       = 0,
              !.rep_analyses          = <<>>]

\* reset_rep_counter, lines 91-98, applied to a processor with fields s.
ResetRepCounter(s) ==
    [s EXCEPT !.current_rep           = 0,
              !.is_in_bottom_position = FALSE,
              !.rep_start_frame       = 0,
              !.rep_analyses          = <<>>,
              !.current_rep_frames    = <<>>]

\* _calculate_phase_timings with the frames labelled "top" left uncounted.
CalculatePhaseTimings_TopUncounted(frames, f) ==
    IF \E i \in 1..Len(frames) : frames[i].rep_phase \notin Phases
    THEN [raised |-> "KeyError", timings |-> <<>>]
    ELSE IF f = 0
    THEN [raised |-> "ZeroDivisionError", timings |-> <<>>]
    ELSE [raised  |-> "none",
          timings |-> [p \in Phases |->
              IF p = "top" THEN Rat(0, f)
              ELSE Rat(Cardinality({i \in 1..Len(frames) :
                                       frames[i].rep_phase = p}), f)]]

\* _calculate_phase_timings, lines 450-461: what it raises and, when it
\* raises nothing, the timings it returns.  Line 457 indexes the four
\* counters with the frame's label and raises KeyError for any other
\* label; line 461 divides every count by fps.  process_video only passes
\* frames labelled by _determine_rep_phase, and reaches the call with
\* f # 0 (line 418 divides by fps first).
CalculatePhaseTimings(frames, f) ==
    IF \E i \in 1..Len(frames) : frames[i].rep_phase \notin Phases
    THEN [raised |-> "KeyError", timings |-> <<>>]
    ELSE IF f = 0
    THEN [raised |-> "ZeroDivisionError", timings |-> <<>>]
    ELSE [raised  |-> "none",
          timings |-> [p \in Phases |->
              Rat(Cardinality({i \in 1..Len(frames) :
                                  frames[i].rep_phase = p}), f)]]

\* _finalize_current_rep, lines 422-431.
FormIssues(frames) ==
    (IF FloatLess(Degrees(15), MaxSpine(frames))
     THEN <<"Excessive forward lean">> ELSE <<>>)
    \o (IF FloatLess(Degrees(90), MinHip(frames))
        THEN <<"Insufficient depth">> ELSE <<>>)

\* _finalize_current_rep without line 448: the frames of the emitted rep stay
\* in the buffer.
FinalizeCurrentRep_KeepsBuffer(s, end_frame, f) ==
    IF s.current_rep_frames = <<>>
    THEN [self |-> s, raised |-> "none"]
    ELSE LET counted == [s EXCEPT !.current_rep = @ + 1]
             frames == s.current_rep_frames
             timed == CalculatePhaseTimings(frames, f)
             rep == [rep_number         |-> counted.current_rep,
                     start_frame        |-> s.rep_start_frame,
                     end_frame          |-> end_frame,
                     duration           |-> Rat(Len(frames), f),
                     max_depth_angle    |-> MinHip(frames),
                     average_form_score |-> Rat(SumForm(frames), Len(frames)),
                     form_issues        |-> FormIssues(frames),
                     phase_timings      |-> timed.timings]
         IN  IF f = 0
             THEN [self |-> counted, raised |-> "ZeroDivisionError"]
             ELSE IF timed.raised # "none"
             THEN [self |-> counted, raised |-> timed.raised]
             ELSE [self |-> [counted EXCEPT !.rep_analyses = Append(@, rep)],
                   raised |-> "none"]

\* _finalize_current_rep, lines 410-448.  Returns the processor fields after
\* the call and the exception it raised.  The counter is incremented (415)
\* before len(...) / fps (418) raises ZeroDivisionError for fps = 0, and
\* before _calculate_phase_timings (434) raises.
FinalizeCurrentRep(s, end_frame, f) ==
    IF s.current_rep_frames = <<>>
    THEN [self |-> s, raised |-> "none"]
    ELSE LET counted == [s EXCEPT !.current_rep = @ + 1]
             frames == s.current_rep_frames
             timed == CalculatePhaseTimings(frames, f)
             rep == [rep_number         |-> counted.current_rep,
                     start_frame        |-> s.rep_start_frame,
                     end_frame          |-> end_frame,
                     duration           |-> Rat(Len(frames), f),
                     max_depth_angle    |-> MinHip(frames),
                     average_form_score |-> Rat(SumForm(frames), Len(frames)),
                     form_issues        |-> FormIssues(frames),
                     phase_timings      |-> timed.timings]
         IN  IF f = 0
             THEN [self |-> counted, raised |-> "ZeroDivisionError"]
             ELSE IF timed.raised # "none"
             THEN [self |-> counted, raised |-> timed.raised]
             ELSE [self |-> [counted EXCEPT
                                !.rep_analyses = Append(@, rep),
                                !.current_rep_frames = <<>>],
                   raised |-> "none"]

\* _update_rep_tracking with line 405 completing a rep on any frame above
\* 150, whether or not the bottom position was reached.
UpdateRepTracking_CompleteFromIdle(s, analysis, ex) ==
    LET buffered == [s EXCEPT !.current_rep_frames = Append(@, analysis)]
        threshold == IF ex = "squat" THEN 70 ELSE 100
    IN  IF FloatLess(analysis.hip_angle, Degrees(threshold))
              /\ ~s.is_in_bottom_position
        THEN [buffered EXCEPT !.is_in_bottom_position = TRUE,
                              !.rep_start_frame = analysis.frame_number]
        ELSE IF FloatLess(Degrees(150), analysis.hip_angle)
        THEN FinalizeCurrentRep(
                 [buffered EXCEPT !.is_in_bottom_position = FALSE],
                 analysis.frame_number, 30).self
        ELSE buffered

\* _update_rep_tracking with line 400 entering the bottom position on every
\* frame below the threshold, also when already in it.
UpdateRepTracking_ReenterBottom(s, analysis, ex) ==
    LET buffered == [s EXCEPT !.current_rep_frames = Append(@, analysis)]
        threshold == IF ex = "squat" THEN 70 ELSE 100
    IN  IF FloatLess(analysis.hip_angle, Degrees(threshold))
        THEN [buffered EXCEPT !.is_in_bottom_position = TRUE,
                              !.rep_start_frame = analysis.frame_number]
        ELSE IF FloatLess(Degrees(150), analysis.hip_angle)
                   /\ s.is_in_bottom_position
        THEN FinalizeCurrentRep(
                 [buffered EXCEPT !.is_in_bottom_position = FALSE],
                 analysis.frame_number, 30).self
        ELSE buffered

\* _update_rep_tracking with line 400 entering the bottom position at the
\* threshold too (<= instead of <).
UpdateRepTracking_EntryAtThreshold(s, analysis, ex) ==
    LET buffered == [s EXCEPT !.current_rep_frames = Append(@, analysis)]
        threshold == IF ex = "squat" THEN 70 ELSE 100
    IN  IF FloatLessEq(analysis.hip_angle, Degrees(threshold))
              /\ ~s.is_in_bottom_position
        THEN [buffered EXCEPT !.is_in_bottom_position = TRUE,
                              !.rep_start_frame = analysis.frame_number]
        ELSE IF FloatLess(Degrees(150), analysis.hip_angle)
                   /\ s.is_in_bottom_position
        THEN FinalizeCurrentRep(
                 [buffered EXCEPT !.is_in_bottom_position = FALSE],
                 analysis.frame_number, 30).self
        ELSE buffered

\* _update_rep_tracking, lines 393-408: the exception that leaves the call.
\* The completing branch finalizes with the literal 30.0, so the division
\* of line 418 cannot raise; _calculate_phase_timings raises KeyError when
\* a buffered frame carries a label that is not one of the four phases.
UpdateRepTrackingRaised(s, analysis, ex) ==
    LET buffered == [s EXCEPT !.current_rep_frames = Append(@, analysis)]
        threshold == IF ex = "squat" THEN 70 ELSE 100
    IN  IF FloatLess(analysis.hip_angle, Degrees(threshold))
              /\ ~s.is_in_bottom_position
        THEN "none"
        ELSE IF FloatLess(Degrees(150), analysis.hip_angle)
                   /\ s.is_in_bottom_position
        THEN FinalizeCurrentRep(
                 [buffered EXCEPT !.is_in_bottom_position = FALSE],
                 analysis.frame_number, 30).raised
        ELSE "none"

\* _update_rep_tracking, lines 393-408: the processor's fields after the
\* call, whether it returned or raised (UpdateRepTrackingRaised).  A frame
\* with a nan hip angle is buffered and changes nothing else.
UpdateRepTracking(s, analysis, ex) ==
    LET buffered == [s EXCEPT !.current_rep_frames = Append(@, analysis)]
        threshold == IF ex = "squat" THEN 70 ELSE 100
    IN  IF FloatLess(analysis.hip_angle, Degrees(threshold))
              /\ ~s.is_in_bottom_position
        THEN [buffered EXCEPT !.is_in_bottom_position = TRUE,
                              !.rep_start_frame = analysis.frame_number]
        ELSE IF FloatLess(Degrees(150), analysis.hip_angle)
                   /\ s.is_in_bottom_position
        THEN FinalizeCurrentRep(
                 [buffered EXCEPT !.is_in_bottom_position = FALSE],
                 analysis.frame_number, 30).self
        ELSE buffered

\* _process_frame treating a frame without a pose as the end of the dip.
SkipFrame_LeavesBottom(s) == [s EXCEPT !.is_in_bottom_position = FALSE]

\* _process_frame, lines 203-204: no pose detected, return None and leave
\* the processor untouched.
SkipFrame(s) == s

\* ------------------------------------------------------------ process_video
\* What the pose estimator reports for one frame (lines 201-213): no pose,
\* or a pose with the angles the geometry functions derive from it.
NoPose == [pose |-> FALSE, hip_angle |-> NaN, spine_angle |-> NaN]
Pose(hip_angle, spine_angle) ==
    [pose |-> TRUE, hip_angle |-> hip_angle, spine_angle |-> spine_angle]

\* self.pose is built once, in __init__ (lines 77-85), with
\* static_image_mode=False and smooth_landmarks=True: it follows the body
\* from frame to frame and smooths the landmarks over the frames it was
\* given.  process() (line 201) updates that state on every frame, with or
\* without a pose; reset_rep_counter (lines 91-98) and process_video do
\* not touch it.  pose_tracked tells where the frames behind that state
\* come from: "nothing", "this video", or "earlier video" once a frame of a
\* video analyzed before is among them.
PoseAfterFrame(tracked) ==
    IF tracked = "nothing" THEN "this video" ELSE tracked

\* The estimator when process_video is called again: what it tracked
\* belongs to an earlier video.
PoseAfterRun(tracked) ==
    IF tracked = "nothing" THEN "nothing" ELSE "earlier video"

\* No second processor is running; no helper is called on its own.
NoRun == [pc |-> "absent"]
NoCall == [fn |-> "none"]

\* The uploads the server receives and the names their files can carry.
Uploads == 1..MaxUploads
Filenames == {"a.mp4", "b.mp4"}

\* Names open(file_path, "wb") cannot create a file for: one with a
\* directory that uploads/ does not have, and the empty name, for which
\* file_path is the directory itself.
UnwritableFilenames == {"sub/a.mp4", ""}

\* A path of the uploads directory without a file; an upload without a
\* background task.
Absent == [owner |-> 0, video |-> "missing"]
NoTask == [pc |-> "none", path |-> "none", read |-> 0, outcome |-> "none"]

\* The server before any upload: routers/workouts.py lines 16-18 create an
\* uploads directory, the table has no session.
NoServer ==
    /\ files = [n \in Filenames |-> Absent]
    /\ sessions = [u \in Uploads |-> "none"]
    /\ tasks = [u \in Uploads |-> NoTask]
    /\ responses = [u \in Uploads |-> "none"]

Init ==
    /\ pc = "start"
    /\ video_file \in VideoFiles
    /\ cap = "none"
    /\ fps \in FpsValues
    /\ total_frames \in FrameCounts
    /\ exercise_type \in ExerciseTypes
    /\ frame_number = 0
    /\ frame_analyses = <<>>
    /\ pose_landmarks = "unset"
    /\ pose_tracked = "nothing"
    /\ current_rep = ResetSelf.current_rep
    /\ is_in_bottom_position = ResetSelf.is_in_bottom_position
    /\ rep_start_frame = ResetSelf.rep_start_frame
    /\ last_hip_angle = Degrees(180)
    /\ rep_analyses = ResetSelf.rep_analyses
    /\ current_rep_frames = ResetSelf.current_rep_frames
    /\ raised = "none"
    /\ result = "none"
    /\ entries = 0
    /\ completions = 0
    /\ decoded = <<>>
    /\ other = NoRun
    /\ NoServer
    /\ call = NoCall

\* What a call leaves in the processor's fields.
SetSelf(s) ==
    /\ current_rep' = s.current_rep
    /\ is_in_bottom_position' = s.is_in_bottom_position
    /\ rep_start_frame' = s.rep_start_frame
    /\ rep_analyses' = s.rep_analyses
    /\ current_rep_frames' = s.current_rep_frames

\* History of the step from Self to s while frames are processed.
Observe(s) ==
    /\ entries' = entries +
          (IF ~is_in_bottom_position /\ s.is_in_bottom_position
           THEN 1 ELSE 0)
    /\ completions' = completions + Len(s.rep_analyses) - Len(rep_analyses)

\* process_video without the existence test of lines 119-120: a missing
\* file reaches cv2.VideoCapture, which cannot open it.
OpenFailsNotFound_NoExistsTest ==
    /\ pc = "start"
    /\ video_file = "missing"
    /\ cap' = "unopened"
    /\ pc' = "failed"
    /\ raised' = "ValueError"
    /\ UNCHANGED <<video_file, fps, total_frames, exercise_type,
                   frame_number,
                   frame_analyses, pose_landmarks, pose_tracked,
                   current_rep, is_in_bottom_position, rep_start_frame,
                   last_hip_angle,
                   rep_analyses, current_rep_frames, result, entries,
                   completions>>
    /\ UNCHANGED <<decoded, aside>>

\* process_video, lines 119-120: nothing exists at video_path.
OpenFailsNotFound ==
    /\ pc = "start"
    /\ video_file = "missing"
    /\ pc' = "failed"
    /\ raised' = "FileNotFoundError"
    /\ UNCHANGED <<video_file, cap, fps, total_frames, exercise_type,
                   frame_number,
                   frame_analyses, pose_landmarks, pose_tracked,
                   current_rep, is_in_bottom_position, rep_start_frame,
                   last_hip_angle,
                   rep_analyses, current_rep_frames, result, entries,
                   completions>>
    /\ UNCHANGED <<decoded, aside>>

\* process_video, lines 123-125: the capture is created but not opened; it
\* is dropped without a call of release().
OpenFailsUnreadable ==
    /\ pc = "start"
    /\ video_file = "unreadable"
    /\ cap' = "unopened"
    /\ pc' = "failed"
    /\ raised' = "ValueError"
    /\ UNCHANGED <<video_file, fps, total_frames, exercise_type,
                   frame_number,
                   frame_analyses, pose_landmarks, pose_tracked,
                   current_rep, is_in_bottom_position, rep_start_frame,
                   last_hip_angle,
                   rep_analyses, current_rep_frames, result, entries,
                   completions>>
    /\ UNCHANGED <<decoded, aside>>

\* process_video, lines 122-138: the video opens, state is reset.
OpenVideo ==
    /\ pc = "start"
    /\ video_file = "ok"
    /\ cap' = "open"
    /\ pc' = "reading"
    /\ SetSelf(ResetRepCounter(Self))
    /\ last_hip_angle' = Degrees(180)
    /\ frame_analyses' = <<>>
    /\ frame_number' = 0
    /\ UNCHANGED <<video_file, fps, total_frames, exercise_type,
                   pose_landmarks, pose_tracked, raised,
                   result, entries, completions>>
    /\ decoded' = <<>>
    /\ UNCHANGED aside

\* process_video, lines 157-160: every 30 frames the progress is logged as
\* frame_number / total_frames, which raises ZeroDivisionError inside the
\* loop when the decoder reported no frame count.  n is the frame counter
\* after line 155.
ProgressRaises(n) == n % 30 = 0 /\ total_frames = 0

\* One iteration of the loop (lines 141-160) on a frame in which the pose
\* estimator finds a pose with the given angles; image is what the estimator
\* of a newly constructed processor reports for the frame.
\* When _process_frame raises (err), the exception leaves the loop with the
\* frame neither appended nor counted; otherwise the frame counter goes to
\* n and the progress log may raise (ProgressRaises).  Either way the
\* finally clause releases the capture.
AnalyzeFrame(image, hip_angle, spine_angle) ==
    /\ pc = "reading"
    /\ LET analysis == MakeFrameAnalysis(frame_number, fps, hip_angle,
                            spine_angle, exercise_type, last_hip_angle)
           s == UpdateRepTracking(Self, analysis, exercise_type)
           err == UpdateRepTrackingRaised(Self, analysis, exercise_type)
           n == frame_number + 1
       IN  /\ pose_landmarks' = "detected"
           /\ pose_tracked' = PoseAfterFrame(pose_tracked)
           /\ last_hip_angle' =
                  LastHipAngleAfterPhase(hip_angle, last_hip_angle)
           /\ SetSelf(s)
           /\ Observe(s)
           /\ decoded' = Append(decoded, image)
           /\ IF err # "none"
              THEN /\ raised' = err
                   /\ pc' = "failed"
                   /\ cap' = "released"
                   /\ UNCHANGED <<frame_analyses, frame_number>>
              ELSE /\ frame_analyses' = Append(frame_analyses, analysis)
                   /\ frame_number' = n
                   /\ IF ProgressRaises(n)
                      THEN /\ raised' = "ZeroDivisionError"
                           /\ pc' = "failed"
                           /\ cap' = "released"
                      ELSE UNCHANGED <<raised, pc, cap>>
    /\ UNCHANGED <<video_file, fps, total_frames, exercise_type, result>>
    /\ UNCHANGED aside

\* The frame as a processor analyzing its first video sees it: its
\* estimator reports what that of a newly constructed processor reports.
PoseFrame(hip_angle, spine_angle) ==
    AnalyzeFrame(Pose(hip_angle, spine_angle), hip_angle, spine_angle)

ProcessPoseFrame ==
    /\ frame_number < MaxFrames
    /\ \E hip_angle \in HipAngles, spine_angle \in SpineAngles :
          PoseFrame(hip_angle, spine_angle)

\* One iteration of the loop (lines 141-160) on a frame in which the pose
\* estimator finds no pose; image is what the estimator of a newly
\* constructed processor reports for the frame.
SkipDecodedFrame(image) ==
    /\ pc = "reading"
    /\ pose_landmarks' = "None"
    /\ pose_tracked' = PoseAfterFrame(pose_tracked)
    /\ SetSelf(SkipFrame(Self))
    /\ Observe(SkipFrame(Self))
    /\ frame_number' = frame_number + 1
    /\ IF ProgressRaises(frame_number + 1)
       THEN /\ raised' = "ZeroDivisionError"
            /\ pc' = "failed"
            /\ cap' = "released"
       ELSE UNCHANGED <<raised, pc, cap>>
    /\ UNCHANGED <<video_file, fps, total_frames, exercise_type,
                   frame_analyses, last_hip_angle, result>>
    /\ decoded' = Append(decoded, image)
    /\ UNCHANGED aside

\* The frame without a detectable pose as a processor analyzing its first
\* video sees it.
EmptyFrame == SkipDecodedFrame(NoPose)

ProcessEmptyFrame ==
    /\ frame_number < MaxFrames
    /\ EmptyFrame

\* One iteration of the loop in which colour conversion or pose estimation
\* raises (lines 198-201): nothing was changed yet, the finally clause
\* (162-163) releases the capture and the exception leaves process_video.
FrameRaises ==
    /\ pc = "reading"
    /\ frame_number < MaxFrames
    /\ cap' = "released"
    /\ pc' = "failed"
    /\ raised' = "Exception"
    /\ UNCHANGED <<video_file, fps, total_frames, exercise_type,
                   frame_number,
                   frame_analyses, pose_landmarks, pose_tracked,
                   current_rep, is_in_bottom_position, rep_start_frame,
                   last_hip_angle,
                   rep_analyses, current_rep_frames, result, entries,
                   completions>>
    /\ UNCHANGED <<decoded, aside>>

\* The end of the video with line 166 emitting the buffered frames only
\* when the run ends in the bottom position.
EndOfVideo_FinalizeOnlyInBottom ==
    /\ pc = "reading"
    /\ cap' = "released"
    /\ LET fin == IF current_rep_frames # <<>> /\ is_in_bottom_position
                  THEN FinalizeCurrentRep(Self, frame_number, fps)
                  ELSE [self |-> Self, raised |-> "none"]
       IN  /\ SetSelf(fin.self)
           /\ raised' = fin.raised
           /\ pc' = IF fin.raised = "none" THEN "done" ELSE "failed"
           /\ result' = IF fin.raised = "none"
                        THEN [total_reps     |-> Len(fin.self.rep_analyses),
                              reps           |-> fin.self.rep_analyses,
                              frame_analyses |-> frame_analyses]
                        ELSE "none"
    /\ UNCHANGED <<video_file, fps, total_frames, exercise_type,
                   frame_number,
                   frame_analyses, pose_landmarks, pose_tracked,
                   last_hip_angle, entries, completions>>
    /\ UNCHANGED <<decoded, aside>>

\* cap.read() reports no more frames: lines 143-144 and 162-186.
EndOfVideo ==
    /\ pc = "reading"
    /\ cap' = "released"
    /\ LET fin == IF current_rep_frames # <<>>
                  THEN FinalizeCurrentRep(Self, frame_number, fps)
                  ELSE [self |-> Self, raised |-> "none"]
       IN  /\ SetSelf(fin.self)
           /\ raised' = fin.raised
           /\ pc' = IF fin.raised = "none" THEN "done" ELSE "failed"
           /\ result' = IF fin.raised = "none"
                        THEN [total_reps     |-> Len(fin.self.rep_analyses),
                              reps           |-> fin.self.rep_analyses,
                              frame_analyses |-> frame_analyses]
                        ELSE "none"
    /\ UNCHANGED <<video_file, fps, total_frames, exercise_type,
                   frame_number,
                   frame_analyses, pose_landmarks, pose_tracked,
                   last_hip_angle, entries, completions>>
    /\ UNCHANGED <<decoded, aside>>

Next ==
    \/ OpenFailsNotFound
    \/ OpenFailsUnreadable
    \/ OpenVideo
    \/ ProcessPoseFrame
    \/ ProcessEmptyFrame
    \/ FrameRaises
    \/ EndOfVideo

Spec == Init /\ [][Next]_vars

\* process_video is called again on the same processor, for another video,
\* after a call that returned or raised.  The new call's locals and outcome
\* start afresh; the processor's fields and its pose estimator are what the
\* last call left.
CallAgain ==
    /\ pc \in {"done", "failed"}
    /\ pc' = "start"
    /\ video_file' \in VideoFiles
    /\ fps' \in FpsValues
    /\ total_frames' \in FrameCounts
    /\ exercise_type' \in ExerciseTypes
    /\ cap' = "none"
    /\ frame_number' = 0
    /\ frame_analyses' = <<>>
    /\ pose_landmarks' = "unset"
    /\ pose_tracked' = PoseAfterRun(pose_tracked)
    /\ raised' = "none"
    /\ result' = "none"
    /\ entries' = 0
    /\ completions' = 0
    /\ UNCHANGED <<current_rep, is_in_bottom_position, rep_start_frame,
                   last_hip_angle, rep_analyses, current_rep_frames>>
    /\ decoded' = <<>>
    /\ UNCHANGED aside

\* What the frames of the videos of a reused processor show.
RerunPoses ==
    {NoPose, Pose(Degrees(65), Degrees(0)), Pose(Degrees(170), Degrees(0))}

\* What self.pose.process reports (line 201) for a frame showing image.  An
\* estimator that tracked nothing but this video's frames is in the state of
\* a newly constructed one and reports image.  One that tracked an earlier
\* video starts from the body it followed there and from the landmarks it
\* smoothed there: it may find a pose where a new estimator finds none,
\* lose one, or report other landmarks.
PoseOutputs(image, tracked) ==
    IF tracked = "earlier video" THEN RerunPoses ELSE {image}

\* One iteration of the loop (lines 141-160) on a reused processor.
RerunFrame ==
    /\ frame_number < MaxRerunFrames
    /\ \E image \in RerunPoses :
          \E output \in PoseOutputs(image, pose_tracked) :
             IF output.pose
             THEN AnalyzeFrame(image, output.hip_angle, output.spine_angle)
             ELSE SkipDecodedFrame(image)

\* A frame of such a video on which colour conversion or pose estimation
\* raises.
RerunFrameRaises ==
    /\ frame_number < MaxRerunFrames
    /\ FrameRaises

NextRerun ==
    \/ OpenFailsNotFound
    \/ OpenFailsUnreadable
    \/ OpenVideo
    \/ RerunFrame
    \/ RerunFrameRaises
    \/ EndOfVideo
    \/ CallAgain

SpecRerun == Init /\ [][NextRerun]_vars

TypeOK ==
    /\ pc \in {"idle", "start", "reading", "done", "failed"}
    /\ video_file \in VideoFiles
    /\ cap \in {"none", "unopened", "open", "released"}
    /\ fps \in FpsValues
    /\ total_frames \in FrameCounts
    /\ exercise_type \in ExerciseTypes
    /\ frame_number \in 0..(MaxFrames + 1)
    /\ pose_landmarks \in {"unset", "None", "detected"}
    /\ pose_tracked \in {"nothing", "this video", "earlier video"}
    /\ current_rep \in Nat
    /\ is_in_bottom_position \in BOOLEAN
    /\ rep_start_frame \in Nat
    /\ raised \in {"none", "ZeroDivisionError", "FileNotFoundError",
                    "ValueError", "Exception"}

\* ----------------------------------------------------------- squat scenario
\* The hip angles of a nine-frame squat video, every frame with a pose.
SquatScenario ==
    <<Degrees(170), Degrees(160), Degrees(140), Degrees(100), Degrees(65),
      Degrees(65), Degrees(80), Degrees(120), Degrees(160)>>

InitScenario ==
    /\ pc = "start"
    /\ video_file = "ok"
    /\ cap = "none"
    /\ fps = 30
    /\ total_frames = Len(SquatScenario)
    /\ exercise_type = "squat"
    /\ frame_number = 0
    /\ frame_analyses = <<>>
    /\ pose_landmarks = "unset"
    /\ pose_tracked = "nothing"
    /\ current_rep = ResetSelf.current_rep
    /\ is_in_bottom_position = ResetSelf.is_in_bottom_position
    /\ rep_start_frame = ResetSelf.rep_start_frame
    /\ last_hip_angle = Degrees(180)
    /\ rep_analyses = ResetSelf.rep_analyses
    /\ current_rep_frames = ResetSelf.current_rep_frames
    /\ raised = "none"
    /\ result = "none"
    /\ entries = 0
    /\ completions = 0
    /\ decoded = <<>>
    /\ other = NoRun
    /\ NoServer
    /\ call = NoCall

\* The next frame of the scenario is read and analyzed.
ScenarioFrame ==
    /\ frame_number < Len(SquatScenario)
    /\ \E spine_angle \in SpineAngles :
          PoseFrame(SquatScenario[frame_number + 1], spine_angle)

\* The scenario has no more frames.
ScenarioEnd ==
    /\ frame_number = Len(SquatScenario)
    /\ EndOfVideo

NextScenario ==
    \/ OpenVideo
    \/ ScenarioFrame
    \/ ScenarioEnd

SpecScenario == InitScenario /\ [][NextScenario]_vars

\* ------------------------------------------------- two processors at a time
\* The variables of the one run the sections above are about.
runVars == <<pc, video_file, cap, fps, total_frames, exercise_type,
             frame_number,
             frame_analyses, pose_landmarks, pose_tracked, current_rep,
             is_in_bottom_position, rep_start_frame, last_hip_angle,
             rep_analyses, current_rep_frames, raised, result, entries,
             completions, decoded>>

\* process_and_update_session constructs a processor of its own for every
\* upload; the variables above hold one run, the record other holds the run
\* of a second processor on another video.  Each processor builds its own
\* pose estimator (lines 77-85), and each analyzes one video, so both
\* estimators report what a newly constructed one reports.
PairHipAngles == {Degrees(65), Degrees(170)}
PairSpineAngles == {Degrees(0)}
PairFpsValues == {0, 30}

\* The second run before its video is opened: a newly constructed processor.
OtherStart(f, ex) ==
    [pc             |-> "start",
     fps            |-> f,
     exercise_type  |-> ex,
     frame_number   |-> 0,
     frame_analyses |-> <<>>,
     decoded        |-> <<>>,
     self           |-> ResetSelf,
     last_hip_angle |-> Degrees(180),
     raised         |-> "none",
     result         |-> "none"]

\* The second processor with its frame buffer read from the first one, as
\* if current_rep_frames were an attribute of the class.
OtherSelf_SharedBuffer ==
    [other.self EXCEPT !.current_rep_frames = current_rep_frames]

\* The fields of the second processor: lines 91-98 assign them on self, so
\* every instance has its own.
OtherSelf == other.self

InitPair ==
    /\ pc = "start"
    /\ video_file = "ok"
    /\ cap = "none"
    /\ fps \in PairFpsValues
    /\ total_frames = MaxPairFrames
    /\ exercise_type \in ExerciseTypes
    /\ frame_number = 0
    /\ frame_analyses = <<>>
    /\ pose_landmarks = "unset"
    /\ pose_tracked = "nothing"
    /\ current_rep = ResetSelf.current_rep
    /\ is_in_bottom_position = ResetSelf.is_in_bottom_position
    /\ rep_start_frame = ResetSelf.rep_start_frame
    /\ last_hip_angle = Degrees(180)
    /\ rep_analyses = ResetSelf.rep_analyses
    /\ current_rep_frames = ResetSelf.current_rep_frames
    /\ raised = "none"
    /\ result = "none"
    /\ entries = 0
    /\ completions = 0
    /\ decoded = <<>>
    /\ \E f \in PairFpsValues, ex \in ExerciseTypes : other = OtherStart(f, ex)
    /\ NoServer
    /\ call = NoCall

\* The loop of the first run on a frame with a pose.
PairPoseFrame ==
    /\ frame_number < MaxPairFrames
    /\ \E hip_angle \in PairHipAngles, spine_angle \in PairSpineAngles :
          PoseFrame(hip_angle, spine_angle)

\* The loop of the first run on a frame without a pose.
PairEmptyFrame ==
    /\ frame_number < MaxPairFrames
    /\ ProcessEmptyFrame

\* process_video of the second processor, lines 122-138.
OtherOpen ==
    /\ other.pc = "start"
    /\ other' = [other EXCEPT !.pc             = "reading",
                              !.self           = ResetRepCounter(OtherSelf),
                              !.last_hip_angle = Degrees(180),
                              !.frame_analyses = <<>>,
                              !.frame_number   = 0,
                              !.decoded        = <<>>]
    /\ UNCHANGED <<runVars, call, server>>

\* The loop of the second run (lines 141-160) on a frame with a pose.  Its
\* video is shorter than 30 frames, as the first run's, so the progress log
\* of lines 157-160 is not reached.
OtherPoseFrame ==
    /\ other.pc = "reading"
    /\ other.frame_number < MaxPairFrames
    /\ \E hip_angle \in PairHipAngles, spine_angle \in PairSpineAngles :
          LET analysis == MakeFrameAnalysis(other.frame_number, other.fps,
                              hip_angle, spine_angle, other.exercise_type,
                              other.last_hip_angle)
              s == UpdateRepTracking(OtherSelf, analysis,
                                     other.exercise_type)
          IN  other' = [other EXCEPT
                  !.self           = s,
                  !.last_hip_angle = LastHipAngleAfterPhase(hip_angle, @),
                  !.frame_analyses = Append(@, analysis),
                  !.decoded        = Append(@, Pose(hip_angle, spine_angle)),
                  !.frame_number   = @ + 1]
    /\ UNCHANGED <<runVars, call, server>>

\* The loop of the second run on a frame without a pose.
OtherEmptyFrame ==
    /\ other.pc = "reading"
    /\ other.frame_number < MaxPairFrames
    /\ other' = [other EXCEPT !.self         = SkipFrame(OtherSelf),
                              !.decoded      = Append(@, NoPose),
                              !.frame_number = @ + 1]
    /\ UNCHANGED <<runVars, call, server>>

\* The second run reaches the end of its video: lines 143-144 and 162-186.
OtherEnd ==
    /\ other.pc = "reading"
    /\ LET fin == IF OtherSelf.current_rep_frames # <<>>
                  THEN FinalizeCurrentRep(OtherSelf, other.frame_number,
                                          other.fps)
                  ELSE [self |-> OtherSelf, raised |-> "none"]
       IN  other' = [other EXCEPT
               !.self   = fin.self,
               !.raised = fin.raised,
               !.pc     = IF fin.raised = "none" THEN "done" ELSE "failed",
               !.result = IF fin.raised = "none"
                          THEN [total_reps     |-> Len(fin.self.rep_analyses),
                                reps           |-> fin.self.rep_analyses,
                                frame_analyses |-> other.frame_analyses]
                          ELSE "none"]
    /\ UNCHANGED <<runVars, call, server>>

NextPair ==
    \/ OpenVideo
    \/ PairPoseFrame
    \/ PairEmptyFrame
    \/ EndOfVideo
    \/ OtherOpen
    \/ OtherPoseFrame
    \/ OtherEmptyFrame
    \/ OtherEnd

SpecPair == InitPair /\ [][NextPair]_vars

\* ------------------------------------------------------- helpers on their own
\* The processor is constructed and process_video is not running.
Constructed ==
    /\ pc = "idle"
    /\ video_file = "ok"
    /\ cap = "none"
    /\ fps = 30
    /\ total_frames = 0
    /\ exercise_type = "squat"
    /\ frame_number = 0
    /\ frame_analyses = <<>>
    /\ pose_landmarks = "unset"
    /\ pose_tracked = "nothing"
    /\ current_rep = ResetSelf.current_rep
    /\ is_in_bottom_position = ResetSelf.is_in_bottom_position
    /\ rep_start_frame = ResetSelf.rep_start_frame
    /\ last_hip_angle = Degrees(180)
    /\ rep_analyses = ResetSelf.rep_analyses
    /\ current_rep_frames = ResetSelf.current_rep_frames
    /\ raised = "none"
    /\ result = "none"
    /\ entries = 0
    /\ completions = 0
    /\ decoded = <<>>

\* Angles _calculate_form_score is called with, in and out of the range a
\* body can take, on both sides of every comparison of lines 381-389, and
\* nan.
ScoreHipAngles ==
    {Degrees(v) : v \in {-100, 0, 50, 65, 70, 89, 90, 95, 180, 500}}
        \cup {NaN}
ScoreSpineAngles ==
    {Degrees(v) : v \in {-100, -20, -6, -5, 0, 5, 6, 15, 20, 24, 25, 26, 90,
                         500}} \cup {NaN}

InitScore ==
    /\ Constructed
    /\ other = NoRun
    /\ NoServer
    /\ call \in [fn            : {"_calculate_form_score"},
                  hip_angle     : ScoreHipAngles,
                  spine_angle   : ScoreSpineAngles,
                  exercise_type : ExerciseTypes,
                  returned      : {FALSE},
                  value         : {0}]

\* _calculate_form_score(hip_angle, spine_angle, exercise_type) returns.
ApplyFormScore ==
    /\ call.fn = "_calculate_form_score"
    /\ ~call.returned
    /\ call' = [call EXCEPT
                   !.returned = TRUE,
                   !.value = CalculateFormScore(call.hip_angle,
                                 call.spine_angle, call.exercise_type)]
    /\ UNCHANGED <<runVars, other, server>>

NextScore == ApplyFormScore

SpecScore == InitScore /\ [][NextScore]_vars

\* ------------------------------------------------------------------ geometry
\* Landmarks are points of a grid.  The joints of the keypoint sets drawn
\* below lie one grid step (or none) apart along an axis or a diagonal, so
\* every angle between two limbs is a multiple of 45 degrees.
Point(x, y) == [x |-> x, y |-> y]
Steps == {-1, 0, 1}
Widths == {0, 1}

\* _extract_keypoints, lines 239-263: the landmarks the angles are computed
\* from.  The right side of the body lies width grid steps beside the left.
Keypoints(hip, knee, ankle, shoulder, width) ==
    [left_hip       |-> hip,
     right_hip      |-> Point(hip.x + width, hip.y),
     left_knee      |-> knee,
     right_knee     |-> Point(knee.x + width, knee.y),
     left_ankle     |-> ankle,
     right_ankle    |-> Point(ankle.x + width, ankle.y),
     left_shoulder  |-> shoulder,
     right_shoulder |-> Point(shoulder.x + width, shoulder.y)]

KeypointSets ==
    {Keypoints(Point(2, 2),
               Point(2 + kx, 2 + ky),
               Point(2 + kx + ax, 2 + ky + ay),
               Point(2 + sx, 2 + sy),
               width) :
        kx \in Steps, ky \in Steps, ax \in Steps, ay \in Steps,
        sx \in Steps, sy \in Steps, width \in Widths}

\* The keypoint sets of the frames after the first: thigh and shin in one
\* line (hip angle 0), the shin folded back on the thigh (hip angle 180),
\* and all landmarks at one place.
FollowingKeypointSets ==
    {Keypoints(Point(2, 2), Point(2, 3), Point(2, 4), Point(2, 1), 0),
     Keypoints(Point(2, 2), Point(2, 3), Point(2, 2), Point(2, 1), 1),
     Keypoints(Point(2, 2), Point(2, 2), Point(2, 2), Point(2, 2), 0)}

\* _average_point, lines 342-349: x and y of the average, as exact
\* fractions (z and visibility are not read by the angle functions).
AveragePoint(p1, p2) ==
    Point(Rat(p1.x + p2.x, 2), Rat(p1.y + p2.y, 2))

\* The vector between two averaged points, in halves of a grid step: both
\* ends are fractions with denominator 2.  Neither the angle between two
\* vectors nor a norm being zero depends on the unit.
Vector(from, to) ==
    [x |-> to.x.num - from.x.num, y |-> to.y.num - from.y.num]
Dot(a, b) == a.x * b.x + a.y * b.y
Cross(a, b) == a.x * b.y - a.y * b.x
IsZeroVector(a) == a.x = 0 /\ a.y = 0

\* degrees(arccos(clip(dot / norms, -1, 1))) for two vectors that are not
\* zero and a multiple of 45 degrees apart.
ArccosDegrees(a, b) ==
    IF Dot(a, b) > 0
    THEN (IF Cross(a, b) = 0 THEN 0 ELSE 45)
    ELSE IF Dot(a, b) = 0 THEN 90
    ELSE (IF Cross(a, b) = 0 THEN 180 ELSE 135)

\* The body of the try blocks of lines 267-286, 290-309 and 313-332.  The
\* dot product and the norms are numpy.float64 values: dividing 0.0 by a
\* zero norm gives nan (with a RuntimeWarning), it does not raise, so the
\* except clause and its default are never reached; clip, arccos and
\* degrees pass nan on.
AngleOrDefault(a, b, zero_norm, default) ==
    IF zero_norm THEN NaN ELSE Degrees(ArccosDegrees(a, b))

\* _calculate_hip_angle, lines 265-286.
CalculateHipAngle(keypoints) ==
    LET hip == AveragePoint(keypoints.left_hip, keypoints.right_hip)
        knee == AveragePoint(keypoints.left_knee, keypoints.right_knee)
        ankle == AveragePoint(keypoints.left_ankle, keypoints.right_ankle)
        thigh_vector == Vector(hip, knee)
        shin_vector == Vector(knee, ankle)
    IN  AngleOrDefault(thigh_vector, shin_vector,
            IsZeroVector(thigh_vector) \/ IsZeroVector(shin_vector), 180)

\* _calculate_spine_angle, lines 288-309: only the spine vector's norm
\* divides.
CalculateSpineAngle(keypoints) ==
    LET shoulder == AveragePoint(keypoints.left_shoulder,
                                 keypoints.right_shoulder)
        hip == AveragePoint(keypoints.left_hip, keypoints.right_hip)
        spine_vector == Vector(hip, shoulder)
        vertical_vector == [x |-> 0, y |-> -1]
    IN  AngleOrDefault(spine_vector, vertical_vector,
            IsZeroVector(spine_vector), 0)

\* _calculate_knee_angle, lines 311-332.
CalculateKneeAngle(keypoints) ==
    LET hip == AveragePoint(keypoints.left_hip, keypoints.right_hip)
        knee == AveragePoint(keypoints.left_knee, keypoints.right_knee)
        ankle == AveragePoint(keypoints.left_ankle, keypoints.right_ankle)
        thigh_vector == Vector(knee, hip)
        shin_vector == Vector(knee, ankle)
    IN  AngleOrDefault(thigh_vector, shin_vector,
            IsZeroVector(thigh_vector) \/ IsZeroVector(shin_vector), 180)

\* _process_frame, lines 206-232: the FrameAnalysis of a frame in which the
\* pose estimator found the given keypoints.
ProcessFrame(n, timestamp, keypoints, ex, last) ==
    LET hip == CalculateHipAngle(keypoints)
        spine == CalculateSpineAngle(keypoints)
        form_score == CalculateFormScore(hip, spine, ex)
    IN  [frame_number |-> n,
         timestamp    |-> timestamp,
         hip_angle    |-> hip,
         spine_angle  |-> spine,
         knee_angle   |-> CalculateKneeAngle(keypoints),
         form_score   |-> form_score,
         is_good_form |-> form_score >= 70,
         rep_phase    |-> DetermineRepPhase(hip, ex, last)]

\* Calls of _process_frame on one processor, one after the other.
MaxGeometryCalls == 3

\* _process_frame is called on a constructed processor with a set of
\* keypoints; calls counts the calls that returned.
InitGeometry ==
    /\ Constructed
    /\ other = NoRun
    /\ NoServer
    /\ call \in [fn            : {"_process_frame"},
                  calls         : {0},
                  keypoints     : KeypointSets,
                  exercise_type : ExerciseTypes,
                  returned      : {FALSE},
                  hip_angle     : {NaN},
                  spine_angle   : {NaN},
                  knee_angle    : {NaN},
                  rep_phase     : {"none"},
                  form_score    : {0}]

\* _process_frame, lines 203-237, from the keypoints on: the analysis is
\* built, handed to _update_rep_tracking (line 235) and returned.
ApplyGeometry ==
    /\ call.fn = "_process_frame"
    /\ ~call.returned
    /\ LET analysis == ProcessFrame(call.calls, Timestamp(call.calls, 30),
                           call.keypoints, call.exercise_type,
                           last_hip_angle)
           s == UpdateRepTracking(Self, analysis, call.exercise_type)
       IN  /\ call' = [call EXCEPT
                          !.returned    = TRUE,
                          !.calls       = @ + 1,
                          !.hip_angle   = analysis.hip_angle,
                          !.spine_angle = analysis.spine_angle,
                          !.knee_angle  = analysis.knee_angle,
                          !.rep_phase   = analysis.rep_phase,
                          !.form_score  = analysis.form_score]
           /\ SetSelf(s)
           /\ Observe(s)
    /\ pose_landmarks' = "detected"
    /\ pose_tracked' = PoseAfterFrame(pose_tracked)
    /\ UNCHANGED <<pc, video_file, cap, fps, total_frames, exercise_type,
                   frame_number, frame_analyses, last_hip_angle, raised,
                   result, decoded, other, server>>

\* The caller passes the next frame's keypoints to _process_frame.
CallProcessFrame ==
    /\ call.fn = "_process_frame"
    /\ call.returned
    /\ call.calls < MaxGeometryCalls
    /\ \E keypoints \in FollowingKeypointSets :
          call' = [call EXCEPT !.returned = FALSE,
                               !.keypoints = keypoints]
    /\ UNCHANGED <<runVars, other, server>>

NextGeometry ==
    \/ ApplyGeometry
    \/ CallProcessFrame

SpecGeometry == InitGeometry /\ [][NextGeometry]_vars

\* --------------------------------------------- rep tracking on its own
\* _update_rep_tracking called frame after frame on a constructed
\* processor, as test_rep_counting_edge_cases does, with frames that carry
\* any label, "unknown" included.
MaxTrackingCalls == 3
TrackingHipAngles == {Degrees(50), Degrees(60), Degrees(70), Degrees(180)}
TrackingLabels == Phases \cup {"unknown"}

InitTracking ==
    /\ Constructed
    /\ other = NoRun
    /\ NoServer
    /\ call \in [fn            : {"_update_rep_tracking"},
                  exercise_type : ExerciseTypes,
                  calls         : {0},
                  raised        : {"none"}]

\* One call: the frame's number is its place in the sequence.
ApplyRepTracking ==
    /\ call.fn = "_update_rep_tracking"
    /\ call.raised = "none"
    /\ call.calls < MaxTrackingCalls
    /\ \E hip_angle \in TrackingHipAngles, rep_phase \in TrackingLabels :
          LET ex == call.exercise_type
              analysis == [frame_number |-> call.calls,
                           timestamp    |-> Rat(33 * call.calls, 1000),
                           hip_angle    |-> hip_angle,
                           spine_angle  |-> Degrees(5),
                           form_score   |-> 85,
                           is_good_form |-> TRUE,
                           rep_phase    |-> rep_phase]
              s == UpdateRepTracking(Self, analysis, ex)
          IN  /\ SetSelf(s)
              /\ Observe(s)
              /\ call' = [call EXCEPT
                             !.calls = @ + 1,
                             !.raised = UpdateRepTrackingRaised(
                                            Self, analysis, ex)]
    /\ UNCHANGED <<pc, video_file, cap, fps, total_frames, exercise_type,
                   frame_number, frame_analyses, pose_landmarks,
                   pose_tracked, last_hip_angle, raised, result, decoded,
                   other, server>>

NextTracking == ApplyRepTracking

SpecTracking == InitTracking /\ [][NextTracking]_vars

\* Hip angles _determine_rep_phase is called with, on both sides of and on
\* every cut-off of lines 354-369, and the values self.last_hip_angle holds
\* at the call (the caller sets the attribute, as the tests do).
PhaseHipAngles ==
    {Degrees(v) : v \in {-10, 0, 89, 90, 91, 99, 100, 101, 120, 149, 150,
                         151, 159, 160, 161, 180, 200}} \cup {NaN}
PhaseLastAngles ==
    {Degrees(v) : v \in {90, 100, 120, 150, 160, 180}} \cup {NaN}

InitPhase ==
    /\ Constructed
    /\ other = NoRun
    /\ NoServer
    /\ call \in [fn             : {"_determine_rep_phase"},
                  hip_angle      : PhaseHipAngles,
                  last_hip_angle : PhaseLastAngles,
                  exercise_type  : ExerciseTypes,
                  returned       : {FALSE},
                  value          : {"none"}]

\* _determine_rep_phase(hip_angle, exercise_type) returns.
ApplyPhase ==
    /\ call.fn = "_determine_rep_phase"
    /\ ~call.returned
    /\ call' = [call EXCEPT
                   !.returned = TRUE,
                   !.value = DetermineRepPhase(call.hip_angle,
                                 call.exercise_type, call.last_hip_angle)]
    /\ UNCHANGED <<runVars, other, server>>

NextPhase == ApplyPhase

SpecPhase == InitPhase /\ [][NextPhase]_vars

\* ------------------------------------------------------- threshold videos
\* Videos whose hip angles lie next to and on the entry thresholds of line
\* 398, and above the exit level of line 404.
BoundaryHipAngles ==
    {Degrees(69), Degrees(70), Degrees(99), Degrees(100), Degrees(155)}

InitBoundary ==
    /\ pc = "start"
    /\ video_file = "ok"
    /\ cap = "none"
    /\ fps = 30
    /\ total_frames = MaxBoundaryFrames
    /\ exercise_type \in ExerciseTypes
    /\ frame_number = 0
    /\ frame_analyses = <<>>
    /\ pose_landmarks = "unset"
    /\ pose_tracked = "nothing"
    /\ current_rep = ResetSelf.current_rep
    /\ is_in_bottom_position = ResetSelf.is_in_bottom_position
    /\ rep_start_frame = ResetSelf.rep_start_frame
    /\ last_hip_angle = Degrees(180)
    /\ rep_analyses = ResetSelf.rep_analyses
    /\ current_rep_frames = ResetSelf.current_rep_frames
    /\ raised = "none"
    /\ result = "none"
    /\ entries = 0
    /\ completions = 0
    /\ decoded = <<>>
    /\ other = NoRun
    /\ NoServer
    /\ call = NoCall

\* The loop on a frame with a pose at one of these angles.
BoundaryFrame ==
    /\ frame_number < MaxBoundaryFrames
    /\ \E hip_angle \in BoundaryHipAngles :
          PoseFrame(hip_angle, Degrees(0))

NextBoundary ==
    \/ OpenVideo
    \/ BoundaryFrame
    \/ EndOfVideo

SpecBoundary == InitBoundary /\ [][NextBoundary]_vars

\* ------------------------------------------------------------------ uploads
\* routers/workouts.py: the upload route and the background task it
\* schedules.  A file is what its path holds: the upload that wrote the
\* bytes (owner) and whether OpenCV can open them (video).  What
\* process_video does with a video that opens is the model above; here only
\* whether it returns or raises matters, and both can happen.
UploadedVideos == {"ok", "unreadable"}
Terminal == {"completed", "failed"}
Raised(outcome) == outcome \notin {"none", "returned"}

InitUpload ==
    /\ Constructed
    /\ other = NoRun
    /\ call = NoCall
    /\ NoServer

\* The requests arrive one after the other.
Arrives(u) ==
    /\ responses[u] = "none"
    /\ \A w \in Uploads : w < u => responses[w] # "none"

\* upload_workout_video, lines 60-77: the bytes are written to
\* uploads/<filename>, replacing whatever the path held, the session is
\* stored with status "processing", the background task is scheduled and
\* the request is answered with 202.  The session is created without an
\* id (lines 65-70), so the commit of line 72 succeeds only on a database
\* whose workout_sessions table supplies the key itself.
UploadVideo(u, name, video) ==
    /\ Arrives(u)
    /\ files' = [files EXCEPT ![name] = [owner |-> u, video |-> video]]
    /\ sessions' = [sessions EXCEPT ![u] = "processing"]
    /\ tasks' = [tasks EXCEPT ![u] = [pc      |-> "queued",
                                      path    |-> name,
                                      read    |-> 0,
                                      outcome |-> "none"]]
    /\ responses' = [responses EXCEPT ![u] = "202"]
    /\ UNCHANGED <<runVars, other, call>>

\* upload_workout_video, lines 60-72, on the table the declared model
\* makes (models/workout.py line 12: a String primary key without a
\* default): the file is written, then db.commit() raises for the missing
\* key.  No session is stored, no task is scheduled, the file stays and the
\* request is answered with 500.
UploadCommitFails(u, name, video) ==
    /\ Arrives(u)
    /\ files' = [files EXCEPT ![name] = [owner |-> u, video |-> video]]
    /\ responses' = [responses EXCEPT ![u] = "500"]
    /\ UNCHANGED <<runVars, other, call, sessions, tasks>>

\* upload_workout_video, lines 60-61: open raises for a filename it cannot
\* create a file for.  Nothing is written or stored.
UploadWriteFails(u, name) ==
    /\ Arrives(u)
    /\ name \in UnwritableFilenames
    /\ responses' = [responses EXCEPT ![u] = "500"]
    /\ UNCHANGED <<runVars, other, call, files, sessions, tasks>>

\* process_and_update_session, line 24: the processor is constructed, which
\* loads the pose model (video_processor.py lines 74-90).  The line stands
\* before the try of line 25: when the constructor raises, the exception
\* leaves the task past the except and the finally clauses.
TaskConstruct(u) ==
    /\ tasks[u].pc = "queued"
    /\ \E outcome \in {"constructed", "RuntimeError"} :
          tasks' = [tasks EXCEPT ![u] =
              IF outcome = "constructed"
              THEN [@ EXCEPT !.pc = "constructed"]
              ELSE [@ EXCEPT !.pc = "crashed", !.outcome = outcome]]
    /\ UNCHANGED <<runVars, other, call, files, sessions, responses>>

\* process_and_update_session, line 26, up to cv2.VideoCapture in
\* process_video (lines 119-125): the file at video_path is looked up and
\* opened.
TaskOpen(u) ==
    /\ tasks[u].pc = "constructed"
    /\ LET file == files[tasks[u].path]
       IN  tasks' = [tasks EXCEPT ![u] =
              IF file = Absent
              THEN [@ EXCEPT !.pc = "finished",
                             !.outcome = "FileNotFoundError"]
              ELSE IF file.video = "unreadable"
              THEN [@ EXCEPT !.pc = "finished", !.read = file.owner,
                             !.outcome = "ValueError"]
              ELSE [@ EXCEPT !.pc = "analyzing", !.read = file.owner]]
    /\ UNCHANGED <<runVars, other, call, files, sessions, responses>>

\* process_video reads the frames and returns its result or raises.
TaskAnalyze(u) ==
    /\ tasks[u].pc = "analyzing"
    /\ \E outcome \in {"returned", "Exception"} :
          tasks' = [tasks EXCEPT ![u] = [@ EXCEPT !.pc = "finished",
                                                  !.outcome = outcome]]
    /\ UNCHANGED <<runVars, other, call, files, sessions, responses>>

\* process_and_update_session, lines 28-41: the session's status becomes
\* "completed" after a return and "failed" after an exception.
TaskUpdate(u) ==
    /\ tasks[u].pc = "finished"
    /\ sessions' = [sessions EXCEPT ![u] =
                       IF Raised(tasks[u].outcome) THEN "failed"
                       ELSE "completed"]
    /\ tasks' = [tasks EXCEPT ![u] = [@ EXCEPT !.pc = "updated"]]
    /\ UNCHANGED <<runVars, other, call, files, responses>>

\* process_and_update_session, lines 42-45: whatever is at video_path is
\* removed.
TaskCleanup(u) ==
    /\ tasks[u].pc = "updated"
    /\ files' = [files EXCEPT ![tasks[u].path] = Absent]
    /\ tasks' = [tasks EXCEPT ![u] = [@ EXCEPT !.pc = "cleaned"]]
    /\ UNCHANGED <<runVars, other, call, sessions, responses>>

\* The background task of upload u takes its next step.
TaskStep(u) ==
    \/ TaskConstruct(u)
    \/ TaskOpen(u)
    \/ TaskAnalyze(u)
    \/ TaskUpdate(u)
    \/ TaskCleanup(u)

NextUpload ==
    \/ \E u \in Uploads, name \in Filenames, video \in UploadedVideos :
          UploadVideo(u, name, video)
    \/ \E u \in Uploads, name \in Filenames, video \in UploadedVideos :
          UploadCommitFails(u, name, video)
    \/ \E u \in Uploads, name \in UnwritableFilenames :
          UploadWriteFails(u, name)
    \/ \E u \in Uploads : TaskConstruct(u)
    \/ \E u \in Uploads : TaskOpen(u)
    \/ \E u \in Uploads : TaskAnalyze(u)
    \/ \E u \in Uploads : TaskUpdate(u)
    \/ \E u \in Uploads : TaskCleanup(u)

SpecUpload == InitUpload /\ [][NextUpload]_vars

\* The server runs every scheduled background task, and process_video ends
\* on a video of finitely many frames.
SpecUploadFair ==
    SpecUpload /\ \A u \in Uploads : WF_vars(TaskStep(u))

\* ------------------------------------------------------------- long videos
\* Videos long enough for the progress log of lines 157-160 to run.  The
\* pose changes only at the start of a segment, so a video is a few runs
\* of equal frames.
LongVideoFrames == 30
SegmentFrames == 15
LongVideoPoses ==
    {NoPose, Pose(Degrees(65), Degrees(0)), Pose(Degrees(170), Degrees(0))}

InitLong ==
    /\ pc = "start"
    /\ video_file = "ok"
    /\ cap = "none"
    /\ fps \in FpsValues
    /\ total_frames \in FrameCounts
    /\ exercise_type \in ExerciseTypes
    /\ frame_number = 0
    /\ frame_analyses = <<>>
    /\ pose_landmarks = "unset"
    /\ pose_tracked = "nothing"
    /\ current_rep = ResetSelf.current_rep
    /\ is_in_bottom_position = ResetSelf.is_in_bottom_position
    /\ rep_start_frame = ResetSelf.rep_start_frame
    /\ last_hip_angle = Degrees(180)
    /\ rep_analyses = ResetSelf.rep_analyses
    /\ current_rep_frames = ResetSelf.current_rep_frames
    /\ raised = "none"
    /\ result = "none"
    /\ entries = 0
    /\ completions = 0
    /\ decoded = <<>>
    /\ other = NoRun
    /\ NoServer
    /\ call = NoCall

\* The loop on the next frame of such a video.
LongVideoFrame ==
    /\ frame_number < LongVideoFrames
    /\ \E frame \in LongVideoPoses :
          /\ frame_number % SegmentFrames # 0 =>
                 frame = decoded[Len(decoded)]
          /\ IF frame.pose
             THEN PoseFrame(frame.hip_angle, frame.spine_angle)
             ELSE EmptyFrame

NextLong ==
    \/ OpenVideo
    \/ LongVideoFrame
    \/ EndOfVideo

SpecLong == InitLong /\ [][NextLong]_vars

\* ------------------------------------------------------------------ claims
\* Frames the code buffered for rep i: the analyzed frames after the end of
\* the previous rep, up to the end of rep i.
PrevEnd(i) == IF i = 1 THEN -1 ELSE rep_analyses[i - 1].end_frame

RepFrames(i) ==
    SelectSeq(frame_analyses,
              LAMBDA fa : /\ PrevEnd(i) < fa.frame_number
                          /\ fa.frame_number <= rep_analyses[i].end_frame)

\* Analyzed frames whose frame_number lies in rep i's window.
WindowFrames(i) ==
    SelectSeq(frame_analyses,
              LAMBDA fa : /\ rep_analyses[i].start_frame <= fa.frame_number
                          /\ fa.frame_number <= rep_analyses[i].end_frame)

EntryThreshold == IF exercise_type = "squat" THEN 70 ELSE 100

\* C1: the emitted reps are numbered 1, 2, ..., N in emission order and the
\* rep counter always equals the number of emitted reps.
C1_RepNumbersSequential ==
    /\ \A i \in 1..Len(rep_analyses) : rep_analyses[i].rep_number = i
    /\ current_rep = Len(rep_analyses)

\* C2: each rep's [start_frame, end_frame] is disjoint from and strictly
\* after the window of the rep before it, the rep forced at end of video
\* included.
C2_WindowsDisjoint ==
    /\ \A i \in 1..Len(rep_analyses) :
          rep_analyses[i].start_frame <= rep_analyses[i].end_frame
    /\ \A i \in 1..(Len(rep_analyses) - 1) :
          rep_analyses[i].end_frame < rep_analyses[i + 1].start_frame

\* C3: after a frame is classified the stored previous hip angle is that
\* frame's hip angle, and a mid-range frame is labelled by comparing its hip
\* angle with the preceding analyzed frame's (180 for the first one).
C3_PreviousHipAngleTracksFrame ==
    /\ frame_analyses # <<>> =>
          last_hip_angle = Last(frame_analyses).hip_angle
    /\ \A i \in 1..Len(frame_analyses) :
          LET fa == frame_analyses[i]
              prev == IF i = 1 THEN Degrees(180)
                      ELSE frame_analyses[i - 1].hip_angle
          IN  fa.rep_phase \in {"descent", "ascent"} =>
                 fa.rep_phase = IF FloatLess(fa.hip_angle, prev)
                                THEN "descent" ELSE "ascent"

\* C4: a rep completed by the in_bottom -> idle transition ends at the
\* completing frame and its duration and phase timings are its buffered
\* frame counts divided by the video's fps.  (While frames are still being
\* read every emitted rep was completed by that transition.)
C4_TransitionRepUsesVideoFps ==
    (pc = "reading" /\ fps > 0) =>
       \A i \in 1..Len(rep_analyses) :
          LET rep == rep_analyses[i]
          IN  /\ \E j \in 1..Len(frame_analyses) :
                    /\ frame_analyses[j].frame_number = rep.end_frame
                    /\ FloatLess(Degrees(150), frame_analyses[j].hip_angle)
              /\ RatEq(rep.duration, Rat(Len(RepFrames(i)), fps))
              /\ \A p \in Phases :
                    RatEq(rep.phase_timings[p],
                          Rat(Len(SelectSeq(RepFrames(i),
                                  LAMBDA fa : fa.rep_phase = p)), fps))

\* C5: a rep's average_form_score is the mean of form_score over exactly
\* the analyzed frames whose frame_number lies in [start_frame, end_frame].
C5_AverageOverWindow ==
    \A i \in 1..Len(rep_analyses) :
       /\ WindowFrames(i) # <<>>
       /\ RatEq(rep_analyses[i].average_form_score,
                Rat(SumForm(WindowFrames(i)), Len(WindowFrames(i))))

\* C6: while frames are processed a rep is emitted only by a frame with
\* hip_angle > 150 received in state in_bottom, so the reps completed by
\* transition never outnumber the idle -> in_bottom entries.
C6_CompletionNeedsBottom ==
    /\ [](completions <= entries)
    /\ [][(pc = "reading" /\ pc' = "reading"
             /\ Len(rep_analyses') > Len(rep_analyses))
          => /\ is_in_bottom_position
             /\ ~is_in_bottom_position'
             /\ Len(rep_analyses') = Len(rep_analyses) + 1
             /\ pose_landmarks' = "detected"
             /\ Len(frame_analyses') = Len(frame_analyses) + 1
             /\ FloatLess(Degrees(150),
                          Last(frame_analyses').hip_angle)]_vars

\* A second dip is under way after one completed rep.
C6_Witness ==
    pc = "reading" /\ completions = 1 /\ entries = 2

\* C7: for squat and deadlift alike, a rep completed by the in_bottom ->
\* idle transition has a buffered frame labelled "bottom" and its completing
\* frame is labelled "top".
C7_BottomToTopTransition ==
    pc = "reading" =>
       \A i \in 1..Len(rep_analyses) :
          /\ \E j \in 1..Len(RepFrames(i)) :
                RepFrames(i)[j].rep_phase = "bottom"
          /\ \A j \in 1..Len(frame_analyses) :
                frame_analyses[j].frame_number = rep_analyses[i].end_frame
                   => frame_analyses[j].rep_phase = "top"

\* C8: in state in_bottom a frame with hip_angle <= 150, or with a
\* hip_angle that is not a number, only appends the frame to the
\* current-rep buffer: the state, the rep counter, rep_start_frame and the
\* emitted reps stay as they were.
C8_DipWhileInBottomOnlyBuffers ==
    [][(pc = "reading" /\ is_in_bottom_position
          /\ pose_landmarks' = "detected"
          /\ frame_number' = frame_number + 1
          /\ ~FloatLess(Degrees(150), Last(frame_analyses').hip_angle))
       => /\ is_in_bottom_position' = is_in_bottom_position
          /\ current_rep' = current_rep
          /\ rep_start_frame' = rep_start_frame
          /\ rep_analyses' = rep_analyses
          /\ current_rep_frames' =
                Append(current_rep_frames, Last(frame_analyses'))]_vars

\* A frame below the entry threshold arrived after the one that entered
\* in_bottom.
C8_Witness ==
    /\ pc = "reading"
    /\ is_in_bottom_position
    /\ Len(current_rep_frames) >= 2
    /\ FloatLess(Last(current_rep_frames).hip_angle,
                 Degrees(EntryThreshold))
    /\ Last(current_rep_frames).frame_number > rep_start_frame

\* C9: when the video ends in state in_bottom with a non-empty buffer,
\* process_video emits exactly one more rep, built from the buffered frames,
\* and returns with the buffer empty.  The video ends when the run leaves
\* the loop without having decoded another frame and without a frame having
\* raised.
C9_TrailingRepEmitted ==
    [][(pc = "reading" /\ pc' # "reading"
          /\ decoded' = decoded /\ raised' # "Exception"
          /\ is_in_bottom_position /\ current_rep_frames # <<>>)
       => /\ pc' = "done"
          /\ Len(rep_analyses') = Len(rep_analyses) + 1
          /\ Last(rep_analyses').duration.num = Len(current_rep_frames)
          /\ current_rep_frames' = <<>>]_vars

\* C10: a frame without a detected pose adds nothing to frame_analyses and
\* leaves the segmentation state and the previous hip angle as they were;
\* only the frame index advances.
C10_NoPoseFrameSkipped ==
    [][(pc = "reading" /\ pc' = "reading" /\ pose_landmarks' = "None"
          /\ frame_number' # frame_number)
       => /\ frame_number' = frame_number + 1
          /\ frame_analyses' = frame_analyses
          /\ is_in_bottom_position' = is_in_bottom_position
          /\ current_rep' = current_rep
          /\ rep_start_frame' = rep_start_frame
          /\ current_rep_frames' = current_rep_frames
          /\ rep_analyses' = rep_analyses
          /\ last_hip_angle' = last_hip_angle]_vars

\* A frame without a pose was skipped in the middle of a rep.
C10_Witness ==
    /\ pc = "reading"
    /\ pose_landmarks = "None"
    /\ is_in_bottom_position
    /\ current_rep_frames # <<>>
    /\ frame_number > Last(current_rep_frames).frame_number + 1

\* What a newly constructed processor holds after analysing the frames whose
\* angles are recorded in fas: its fields, its previous hip angle and the
\* FrameAnalysis sequence.
RECURSIVE FreshAfter(_, _, _)
FreshAfter(fas, f, ex) ==
    IF fas = <<>>
    THEN [self |-> ResetSelf, last |-> Degrees(180), out |-> <<>>]
    ELSE LET before == FreshAfter(SubSeq(fas, 1, Len(fas) - 1), f, ex)
             fa == Last(fas)
             analysis == MakeFrameAnalysis(fa.frame_number, f, fa.hip_angle,
                                           fa.spine_angle, ex, before.last)
         IN  [self |-> UpdateRepTracking(before.self, analysis, ex),
              last |-> LastHipAngleAfterPhase(fa.hip_angle, before.last),
              out  |-> Append(before.out, analysis)]

\* The outcome of process_video on a newly constructed processor for a video
\* of n frames, the analyzed ones being fas.
FreshOutcome(fas, n, f, ex) ==
    LET fresh == FreshAfter(fas, f, ex)
        fin == IF fresh.self.current_rep_frames # <<>>
               THEN FinalizeCurrentRep(fresh.self, n, f)
               ELSE [self |-> fresh.self, raised |-> "none"]
    IN  [raised |-> fin.raised,
         result |-> IF fin.raised = "none"
                    THEN [total_reps     |-> Len(fin.self.rep_analyses),
                          reps           |-> fin.self.rep_analyses,
                          frame_analyses |-> fresh.out]
                    ELSE "none"]

\* A newly constructed processor run alone on the frames dec, of which
\* frame i (counted from 0) is dec[i + 1]: its fields, its previous hip
\* angle and its FrameAnalysis sequence after the last of them.
RECURSIVE AloneAfter(_, _, _)
AloneAfter(dec, f, ex) ==
    IF dec = <<>>
    THEN [self |-> ResetSelf, last |-> Degrees(180), out |-> <<>>]
    ELSE LET before == AloneAfter(SubSeq(dec, 1, Len(dec) - 1), f, ex)
             frame == Last(dec)
             analysis == MakeFrameAnalysis(Len(dec) - 1, f, frame.hip_angle,
                             frame.spine_angle, ex, before.last)
         IN  IF frame.pose
             THEN [self |-> UpdateRepTracking(before.self, analysis, ex),
                   last |-> LastHipAngleAfterPhase(frame.hip_angle,
                                                   before.last),
                   out  |-> Append(before.out, analysis)]
             ELSE [before EXCEPT !.self = SkipFrame(@)]

\* What process_video returns or raises for that processor at the end of
\* the video.
AloneOutcome(dec, f, ex) ==
    LET alone == AloneAfter(dec, f, ex)
        fin == IF alone.self.current_rep_frames # <<>>
               THEN FinalizeCurrentRep(alone.self, Len(dec), f)
               ELSE [self |-> alone.self, raised |-> "none"]
    IN  [raised         |-> fin.raised,
         reps           |-> fin.self.rep_analyses,
         frame_analyses |-> alone.out]

\* C11: every run starts from reset per-run state, and a run on a processor
\* that was used before goes through the states, and returns the result (or
\* raises the error), of a run of a newly constructed processor on the same
\* video.
C11_RerunEqualsFreshRun ==
    /\ [][(pc = "start" /\ pc' = "reading")
          => /\ current_rep' = 0
             /\ ~is_in_bottom_position'
             /\ rep_start_frame' = 0
             /\ last_hip_angle' = Degrees(180)
             /\ rep_analyses' = <<>>
             /\ current_rep_frames' = <<>>]_vars
    /\ [](pc = "reading" =>
             LET fresh == AloneAfter(decoded, fps, exercise_type)
             IN  /\ Self = fresh.self
                 /\ last_hip_angle = fresh.last
                 /\ frame_analyses = fresh.out)
    /\ []((pc = "done" \/ raised = "ZeroDivisionError") =>
             LET fresh == AloneOutcome(decoded, fps, exercise_type)
             IN  /\ raised = fresh.raised
                 /\ pc = "done" =>
                       /\ result.reps = fresh.reps
                       /\ result.total_reps = Len(fresh.reps)
                       /\ result.frame_analyses = fresh.frame_analyses)

\* C12: process_video raises FileNotFoundError for a missing video and
\* ValueError for one that cannot be opened; in both cases no frame is
\* processed and no result is returned.
C12_OpenFailures ==
    /\ video_file = "missing" =>
          /\ pc \in {"start", "failed"}
          /\ pc = "failed" => raised = "FileNotFoundError"
    /\ video_file = "unreadable" =>
          /\ pc \in {"start", "failed"}
          /\ pc = "failed" => raised = "ValueError"
    /\ raised \in {"FileNotFoundError", "ValueError"} =>
          /\ video_file # "ok"
          /\ pc = "failed"
          /\ result = "none"
          /\ frame_number = 0
          /\ frame_analyses = <<>>
          /\ pose_landmarks = "unset"

\* The call for a missing video has failed.
C12_Witness ==
    pc = "failed" /\ video_file = "missing" /\ raised = "FileNotFoundError"

\* C13: a run that created the video capture has released it whenever it
\* has left process_video: after normal completion, after an exception
\* while processing a frame, and after failing to open the capture.
C13_CaptureReleased ==
    (pc \in {"done", "failed"} /\ cap # "none") => cap = "released"

\* C16: for every hip and spine angle, negative and out-of-range ones
\* included, and for both exercises, the form score is an integer from 0 to
\* 100.
C16_FormScoreBounded ==
    (call.fn = "_calculate_form_score" /\ call.returned) =>
       /\ call.value \in Int
       /\ 0 <= call.value
       /\ call.value <= 100

\* A squat frame far below parallel with an upright spine: base 100 plus the
\* depth bonus is held at 100.
C16_Witness ==
    /\ call.fn = "_calculate_form_score"
    /\ call.returned
    /\ call.exercise_type = "squat"
    /\ call.hip_angle = Degrees(-100)
    /\ call.spine_angle = Degrees(0)
    /\ call.value = 100

\* C17 as stated: the FrameAnalysis sequence is strictly increasing in
\* frame_number and in timestamp, for every pattern of frames with and
\* without a pose and every fps the decoder reports.
C17_StrictlyIncreasing_AnyFps ==
    \A i \in 1..(Len(frame_analyses) - 1) :
       /\ frame_analyses[i].frame_number < frame_analyses[i + 1].frame_number
       /\ RatLess(frame_analyses[i].timestamp,
                  frame_analyses[i + 1].timestamp)

\* C17, amended: the FrameAnalysis sequence is strictly increasing in
\* frame_number for every fps; it is strictly increasing in timestamp when
\* fps > 0, and every timestamp is 0 when fps <= 0.
C17_StrictlyIncreasing ==
    /\ \A i \in 1..(Len(frame_analyses) - 1) :
          /\ frame_analyses[i].frame_number
                < frame_analyses[i + 1].frame_number
          /\ fps > 0 => RatLess(frame_analyses[i].timestamp,
                                frame_analyses[i + 1].timestamp)
    /\ \A i \in 1..Len(frame_analyses) :
          /\ fps > 0 => RatEq(frame_analyses[i].timestamp,
                              Rat(frame_analyses[i].frame_number, fps))
          /\ fps <= 0 => RatEq(frame_analyses[i].timestamp, Rat(0, 1))

\* Two analyzed frames with a skipped frame between them, at 24 fps.
C17_Witness ==
    /\ fps = 24
    /\ Len(frame_analyses) >= 2
    /\ frame_analyses[2].frame_number > frame_analyses[1].frame_number + 1

InSeq(x, s) == \E k \in 1..Len(s) : s[k] = x

\* C18: for every emitted rep the four phase counts behind phase_timings
\* add up to the number of frames buffered for the rep, and duration is the
\* sum of the four timings.
C18_PhaseTimingsSum ==
    \A i \in 1..Len(rep_analyses) :
       LET rep == rep_analyses[i]
           pt == rep.phase_timings
       IN  /\ DOMAIN pt = Phases
           /\ \A p \in Phases :
                 /\ pt[p].den = rep.duration.den
                 /\ pt[p].num = Len(SelectSeq(RepFrames(i),
                                       LAMBDA fa : fa.rep_phase = p))
           /\ pt["descent"].num + pt["bottom"].num + pt["ascent"].num
                 + pt["top"].num = Len(RepFrames(i))
           /\ rep.duration.num = Len(RepFrames(i))

\* A rep whose frames fall into three phases.
C18_Witness ==
    \E i \in 1..Len(rep_analyses) :
       /\ rep_analyses[i].phase_timings["bottom"].num >= 1
       /\ rep_analyses[i].phase_timings["descent"].num >= 1
       /\ rep_analyses[i].phase_timings["top"].num >= 1

\* C19: a rep carries "Excessive forward lean" exactly when one of its
\* buffered frames has spine_angle > 15, and "Insufficient depth" exactly
\* when the smallest hip_angle of its buffered frames, its max_depth_angle,
\* is above 90.  The smallest hip angle is one of the buffered angles that
\* none of them lies below, and a number when any of them is one.
C19_FormIssues ==
    \A i \in 1..Len(rep_analyses) :
       LET rep == rep_analyses[i]
           frames == RepFrames(i)
       IN  /\ frames # <<>>
           /\ \E k \in 1..Len(frames) :
                 frames[k].hip_angle = rep.max_depth_angle
           /\ \A k \in 1..Len(frames) :
                 ~FloatLess(frames[k].hip_angle, rep.max_depth_angle)
           /\ (\E k \in 1..Len(frames) : ~frames[k].hip_angle.nan)
                 => ~rep.max_depth_angle.nan
           /\ InSeq("Excessive forward lean", rep.form_issues)
                 <=> \E k \in 1..Len(frames) :
                        FloatLess(Degrees(15), frames[k].spine_angle)
           /\ InSeq("Insufficient depth", rep.form_issues)
                 <=> FloatLess(Degrees(90), rep.max_depth_angle)
           /\ \A k \in 1..Len(rep.form_issues) :
                 rep.form_issues[k] \in
                    {"Excessive forward lean", "Insufficient depth"}

\* C20: the squat hip angles 170, 160, 140, 100, 65, 65, 80, 120, 160 at
\* 30 fps give exactly one rep, emitted on the last frame, with
\* max_depth_angle 65, and both 65-degree frames are labelled "bottom".
C20_SquatScenario ==
    /\ (pc = "reading" /\ frame_number < 9) => rep_analyses = <<>>
    /\ (pc = "reading" /\ frame_number = 9) =>
          /\ Len(rep_analyses) = 1
          /\ current_rep_frames = <<>>
    /\ pc \in {"done", "failed"} =>
          /\ pc = "done"
          /\ result.total_reps = 1
          /\ Len(result.reps) = 1
          /\ result.reps[1].rep_number = 1
          /\ result.reps[1].end_frame = 8
          /\ result.reps[1].max_depth_angle = Degrees(65)
          /\ Len(result.frame_analyses) = 9
          /\ result.frame_analyses[5].hip_angle = Degrees(65)
          /\ result.frame_analyses[5].rep_phase = "bottom"
          /\ result.frame_analyses[6].hip_angle = Degrees(65)
          /\ result.frame_analyses[6].rep_phase = "bottom"

\* The scenario has been analyzed to its end.
C20_Witness ==
    /\ pc = "done"
    /\ frame_number = 9
    /\ Len(decoded) = 9
    /\ decoded[9].hip_angle = Degrees(160)
    /\ result.total_reps = 1

\* A run in state p with these fields and outputs is where the same video
\* analyzed alone would be.
AsAlone(p, dec, f, ex, s, last, fas, err, res) ==
    /\ p = "reading" =>
          LET alone == AloneAfter(dec, f, ex)
          IN  /\ s = alone.self
              /\ last = alone.last
              /\ fas = alone.out
    /\ p \in {"done", "failed"} =>
          LET alone == AloneOutcome(dec, f, ex)
          IN  /\ err = alone.raised
              /\ (p = "done") = (alone.raised = "none")
              /\ p = "done" =>
                    /\ res.reps = alone.reps
                    /\ res.total_reps = Len(alone.reps)
                    /\ res.frame_analyses = alone.frame_analyses

\* C14: two processors analyzing different videos, their frames interleaved
\* in any order, each go through the states and return the result of the
\* same analysis run alone, and a step of one run changes nothing of the
\* other run.
C14_InterleavedRunsIndependent ==
    /\ [](AsAlone(pc, decoded, fps, exercise_type, Self, last_hip_angle,
                  frame_analyses, raised, result))
    /\ [](AsAlone(other.pc, other.decoded, other.fps, other.exercise_type,
                  other.self, other.last_hip_angle, other.frame_analyses,
                  other.raised, other.result))
    /\ [][other' # other => UNCHANGED runVars]_vars
    /\ [][runVars' # runVars => other' = other]_vars

\* Both runs are in the middle of different videos, each with frames
\* buffered, one of them in the bottom position.
C14_Witness ==
    /\ pc = "reading"
    /\ other.pc = "reading"
    /\ frame_number = 1
    /\ other.frame_number = 1
    /\ decoded # other.decoded
    /\ current_rep_frames # <<>>
    /\ other.self.current_rep_frames # <<>>
    /\ is_in_bottom_position # other.self.is_in_bottom_position

\* C15 as stated: the FrameAnalysis labels and the RepAnalysis sequence of a
\* run are a function of the poses the estimator reported, frame by frame,
\* and of the exercise type alone: whatever frame rate f a second run on
\* the same poses is given, it emits the same reps while reading, and
\* returns the same reps or raises the same error at the end.
C15_SameInputsSameOutputs_AnyFps ==
    \A f \in FpsValues :
       /\ pc = "reading" =>
             FreshAfter(frame_analyses, f, exercise_type).self.rep_analyses
                = rep_analyses
       /\ (pc = "done" \/ raised = "ZeroDivisionError") =>
             LET fresh == FreshOutcome(frame_analyses, frame_number, f,
                                       exercise_type)
             IN  /\ raised = fresh.raised
                 /\ pc = "done" => result.reps = fresh.result.reps

\* C15, amended: a run's FrameAnalysis and RepAnalysis sequences are a
\* function of the poses the estimator reported, frame by frame, of the
\* exercise type and of the decoder's frame rate, whatever the processor
\* was used for before: they are those of a newly constructed processor
\* given the same poses, exercise type and frame rate, while reading and at
\* the end.
C15_SameInputsSameOutputs ==
    /\ pc = "reading" =>
          LET fresh == FreshAfter(frame_analyses, fps, exercise_type)
          IN  /\ Self = fresh.self
              /\ last_hip_angle = fresh.last
              /\ frame_analyses = fresh.out
    /\ (pc = "done" \/ raised = "ZeroDivisionError") =>
          LET fresh == FreshOutcome(frame_analyses, frame_number, fps,
                                    exercise_type)
          IN  /\ raised = fresh.raised
              /\ pc = "done" => result = fresh.result

\* A processor used for an earlier video, whose estimator reported for a
\* frame of this video something else than a new one would, has returned a
\* result with a rep.
C15_Witness ==
    /\ pc = "done"
    /\ pose_tracked = "earlier video"
    /\ Len(decoded) = 2
    /\ decoded[1] = NoPose
    /\ Len(result.frame_analyses) = 2
    /\ result.total_reps >= 1

\* All the landmarks of the keypoint set are at one place.
Degenerate(keypoints) ==
    \A a \in DOMAIN keypoints, b \in DOMAIN keypoints :
        keypoints[a] = keypoints[b]

\* C21: for a keypoint set whose landmarks all coincide the geometry
\* functions return the fallbacks, hip angle 180, spine angle 0 and knee
\* angle 180, and the frame is classified "top" with no spine penalty.
C21_DegenerateFallbacks ==
    (call.fn = "_process_frame" /\ call.returned
        /\ Degenerate(call.keypoints))
    => /\ call.hip_angle = Degrees(180)
       /\ call.spine_angle = Degrees(0)
       /\ call.knee_angle = Degrees(180)
       /\ call.rep_phase = "top"
       /\ call.form_score = 100

\* C22: the phase is always one of descent, bottom, ascent, top: above the
\* top cut-off (150 squat, 160 deadlift) it is top, below the bottom cut-off
\* (90, 100) it is bottom, otherwise descent when the hip angle is below the
\* previous one and ascent when not; values on a cut-off or equal to the
\* previous angle fall in the last case, and so does every angle for which
\* none of the comparisons holds.
C22_PhaseTotal ==
    (call.fn = "_determine_rep_phase" /\ call.returned) =>
       LET top_cutoff ==
               Degrees(IF call.exercise_type = "squat" THEN 150 ELSE 160)
           bottom_cutoff ==
               Degrees(IF call.exercise_type = "squat" THEN 90 ELSE 100)
           h == call.hip_angle
           between == ~FloatLess(top_cutoff, h) /\ ~FloatLess(h, bottom_cutoff)
       IN  /\ call.value \in Phases
           /\ FloatLess(top_cutoff, h) => call.value = "top"
           /\ FloatLess(h, bottom_cutoff) => call.value = "bottom"
           /\ (between /\ FloatLess(h, call.last_hip_angle))
                 => call.value = "descent"
           /\ (between /\ ~FloatLess(h, call.last_hip_angle))
                 => call.value = "ascent"

\* A squat frame exactly on the top cut-off and equal to the previous angle
\* is an ascent.
C22_Witness ==
    /\ call.fn = "_determine_rep_phase"
    /\ call.returned
    /\ call.exercise_type = "squat"
    /\ call.hip_angle = Degrees(150)
    /\ call.last_hip_angle = Degrees(150)
    /\ call.value = "ascent"

\* C23: in state idle, a frame with a hip angle strictly below the entry
\* threshold (70 squat, 100 otherwise) moves to in_bottom and sets
\* rep_start_frame to that frame's index without emitting a rep; a frame at
\* or above the threshold leaves the state idle and rep_start_frame as it
\* was.
C23_IdleFrame ==
    [][(/\ pc = "reading"
        /\ ~is_in_bottom_position
        /\ Len(decoded') = Len(decoded) + 1
        /\ Last(decoded').pose)
       => IF FloatLess(Last(decoded').hip_angle, Degrees(EntryThreshold))
          THEN /\ is_in_bottom_position'
               /\ rep_start_frame' = frame_number
               /\ rep_analyses' = rep_analyses
               /\ current_rep' = current_rep
          ELSE /\ ~is_in_bottom_position'
               /\ rep_start_frame' = rep_start_frame
               /\ rep_analyses' = rep_analyses]_vars

\* A squat entered the bottom position a second time, on frame 2 at 69
\* degrees, after a first entry on frame 0 and a completed rep.
C23_Witness ==
    /\ pc = "reading"
    /\ exercise_type = "squat"
    /\ frame_number = 3
    /\ decoded[2].hip_angle = Degrees(155)
    /\ decoded[3].hip_angle = Degrees(69)
    /\ is_in_bottom_position
    /\ rep_start_frame = 2
    /\ Len(rep_analyses) = 1

\* C24: the form score is clamp(trunc(100 - min(40, max(0, |spine| - 5) * 2)
\* + bonus), 0, 100) with bonus = min(10, (90 - hip) / 20 * 10) for a squat
\* frame with hip < 90 and 0 otherwise, so a deadlift gets no bonus and no
\* score exceeds 100.  Twice the unclamped score is twice_raw; trunc is the
\* integer t with 2t <= twice_raw < 2t + 2, twice_raw being positive.  max
\* and the test hip < 90 are Python's: a spine angle that is not above 5 in
\* absolute value costs nothing, a hip angle that is not below 90 earns
\* nothing.
C24_FormScoreFormula ==
    (call.fn = "_calculate_form_score" /\ call.returned) =>
       LET spine == call.spine_angle
           excess == IF FloatLess(Degrees(5), Degrees(Abs(spine.deg)))
                        /\ ~spine.nan
                     THEN Abs(spine.deg) - 5
                     ELSE 0
           penalty == Min(40, excess * 2)
           twice_bonus == IF call.exercise_type = "squat"
                             /\ FloatLess(call.hip_angle, Degrees(90))
                          THEN Min(20, 90 - call.hip_angle.deg)
                          ELSE 0
           twice_raw == 2 * (100 - penalty) + twice_bonus
       IN  /\ twice_raw > 0
           /\ \E t \in 0..200 :
                 /\ 2 * t <= twice_raw
                 /\ twice_raw < 2 * t + 2
                 /\ call.value = Max(0, Min(100, t))
           /\ call.exercise_type # "squat" => call.value = 100 - penalty
           /\ call.value <= 100
           /\ call.value >= 100 - penalty

\* A squat frame one degree below parallel with a spine angle of 6: penalty
\* 2, bonus 0.5, and 98.5 is truncated to 98.
C24_Witness ==
    /\ call.fn = "_calculate_form_score"
    /\ call.returned
    /\ call.exercise_type = "squat"
    /\ call.hip_angle = Degrees(89)
    /\ call.spine_angle = Degrees(6)
    /\ call.value = 98

\* The number of frames buffered for the reps of a list, read from the
\* numerators of duration = len(current_rep_frames) / fps.
RECURSIVE BufferedCount(_)
BufferedCount(reps) ==
    IF reps = <<>> THEN 0
    ELSE reps[1].duration.num + BufferedCount(Tail(reps))

\* C25: when process_video returns, every analyzed frame was buffered into
\* exactly one emitted rep: no frame is left in the buffer, each frame lies
\* in the frames of exactly one rep, each rep counts exactly its frames, and
\* the counts add up to the number of analyzed frames.
C25_RepsPartitionFrames ==
    pc = "done" =>
       /\ current_rep_frames = <<>>
       /\ result.reps = rep_analyses
       /\ result.frame_analyses = frame_analyses
       /\ BufferedCount(result.reps) = Len(frame_analyses)
       /\ \A i \in 1..Len(rep_analyses) :
             /\ rep_analyses[i].duration.num = Len(RepFrames(i))
             /\ Len(RepFrames(i)) >= 1
       /\ \A k \in 1..Len(frame_analyses) :
             Cardinality({i \in 1..Len(rep_analyses) :
                             InSeq(frame_analyses[k], RepFrames(i))}) = 1

\* A video of three analyzed frames returned with two reps, the second
\* made of the frame after the completion of the first.
C25_Witness ==
    /\ pc = "done"
    /\ Len(decoded) = 3
    /\ Len(result.frame_analyses) = 3
    /\ result.total_reps = 2
    /\ result.reps[1].duration.num = 2
    /\ BufferedCount(result.reps) = 3

\* C26: total_reps of the result is the number of completions by the
\* in_bottom -> idle transition during the run, plus one when an analyzed
\* frame arrived after the last completion (or there was none and a frame
\* was analyzed), whether or not the run ended in the bottom position; a
\* video without an analyzed frame has total_reps 0.
C26_TotalReps ==
    pc = "done" =>
       LET trailing ==
              /\ frame_analyses # <<>>
              /\ \/ completions = 0
                 \/ Last(frame_analyses).frame_number
                       > rep_analyses[completions].end_frame
       IN  /\ completions <= Len(rep_analyses)
           /\ result.total_reps = completions + (IF trailing THEN 1 ELSE 0)
           /\ frame_analyses = <<>> => result.total_reps = 0

\* One completed rep and one rep made of the frames after it, the run ending
\* outside the bottom position.
C26_Witness ==
    /\ pc = "done"
    /\ completions = 1
    /\ result.total_reps = 2
    /\ ~is_in_bottom_position
    /\ Last(frame_analyses).frame_number > rep_analyses[1].end_frame

\* C27: a squat rep completed by the in_bottom -> idle transition holds a
\* buffered frame below 70 degrees and never carries "Insufficient depth";
\* on a squat that issue appears only on the rep emitted at the end of the
\* video.
C27_CompletedSquatHasDepth ==
    exercise_type = "squat" =>
       /\ completions <= Len(rep_analyses)
       /\ \A i \in 1..Len(rep_analyses) :
             /\ i <= completions =>
                   /\ \E k \in 1..Len(RepFrames(i)) :
                         FloatLess(RepFrames(i)[k].hip_angle, Degrees(70))
                   /\ ~InSeq("Insufficient depth",
                             rep_analyses[i].form_issues)
             /\ InSeq("Insufficient depth", rep_analyses[i].form_issues) =>
                   /\ pc = "done"
                   /\ i = Len(rep_analyses)
                   /\ i = completions + 1

\* A squat video with one completed rep and a shallow rest that is reported
\* at the end of the video.
C27_Witness ==
    /\ pc = "done"
    /\ exercise_type = "squat"
    /\ completions = 1
    /\ Len(rep_analyses) = 2
    /\ rep_analyses[1].form_issues = <<>>
    /\ InSeq("Insufficient depth", rep_analyses[2].form_issues)

\* C28: when the decoder reports fps <= 0, process_video returns a result
\* with every timestamp 0 for every frame sequence, those with buffered
\* frames to finalize included, and no arithmetic error leaves the run.
C28_ZeroFpsReturns ==
    fps <= 0 =>
       /\ raised # "ZeroDivisionError"
       /\ (pc = "failed" /\ video_file = "ok") => raised = "Exception"
       /\ pc = "done" =>
             \A k \in 1..Len(result.frame_analyses) :
                RatEq(result.frame_analyses[k].timestamp, Rat(0, 1))

\* C29: every session stored with status "processing" reaches a terminal
\* status, "completed" when process_video returned and "failed" when it
\* raised, keeps it from then on, and the task removes the file at its path
\* after either outcome.
C29_SessionReachesTerminalStatus ==
    /\ \A u \in Uploads :
          (sessions[u] = "processing") ~> (sessions[u] \in Terminal)
    /\ \A u \in Uploads :
          (sessions[u] = "processing") ~> (tasks[u].pc = "cleaned")
    /\ [](\A u \in Uploads :
             /\ sessions[u] = "completed" => tasks[u].outcome = "returned"
             /\ sessions[u] = "failed" => Raised(tasks[u].outcome)
             /\ tasks[u].pc \in {"updated", "cleaned"}
                   => sessions[u] \in Terminal)
    /\ [][\A u \in Uploads :
             /\ sessions[u] \in Terminal => sessions'[u] = sessions[u]
             /\ (tasks[u].pc = "updated" /\ tasks'[u].pc = "cleaned")
                   => files'[tasks[u].path] = Absent]_vars

\* C30: overlapping analyses do not interfere through the stored file: an
\* analysis opens the bytes of its own upload, and until it has finished its
\* file is neither overwritten nor deleted by another upload or analysis,
\* also when uploads carry the same filename.
C30_OwnFileOnly ==
    \A u \in Uploads :
       /\ tasks[u].pc \in {"analyzing", "finished", "updated", "cleaned"}
             => tasks[u].read = u
       /\ tasks[u].pc \in {"queued", "constructed", "analyzing"}
             => files[tasks[u].path].owner = u

=============================================================================
